---- MODULE Spec2Model ----
(***************************************************************************)
(* Booking-window date resolution and calendar export of intentcity        *)
(* (web/src/calendarUtils.js).                                             *)
(*                                                                         *)
(* Time values are counted in ticks: a local calendar day holds            *)
(* TicksPerDay ticks, tick 0 of a day being local midnight.  A Date is a   *)
(* record [valid, t]: t is its time value, valid = FALSE is JavaScript's   *)
(* Invalid Date (time value NaN).  Days are counted from 1970-01-01 as in  *)
(* ECMA-262; every day has the same length (no daylight-saving shift).     *)
(* Strings are sequences of one-character tokens, template literals        *)
(* included, so that encoding and escaping act character by character.     *)
(***************************************************************************)
EXTENDS Integers, Sequences, FiniteSets, TLC

VARIABLES
    now,        \* the wall clock, in ticks
    windows,    \* the availability-window objects, by identity
    ret,        \* per window: outcome of the last resolveBookingOpenDate call
    ncalls,     \* number of resolveBookingOpenDate calls made so far
    site,       \* the campsite whose window is exported
    calendarUrl,    \* outcome of the last buildCalendarUrl call
    lastIcs,        \* outcome of the last generateWindowICS call
    objectUrls,     \* object URLs created and not revoked
    bodyLinks,      \* link elements attached to document.body
    nextObjectUrl,  \* number of object URLs created so far
    fmtArg,         \* the Date handed to fmtDate
    fmtOut,         \* what fmtDate returned for it
    running,        \* the export operation under way, with its local values
    mapboxAccessToken,  \* whether VITE_MAPBOX_ACCESS_TOKEN is set
    selectedCampsite,   \* AppContent state: the campsite of the detail panel
    activeAgencies,     \* AppContent state: the array of active agency keys
    reservableOnly,     \* AppContent state: the Reservable filter
    yearRoundOnly,      \* AppContent state: the Year-round filter
    paddingBottom,      \* AppContent state: viewState.padding.bottom
    nevents,            \* number of user events AppContent has handled
    lastEvent,          \* the last map click or close-button press handled
    standalone,         \* import.meta.env.VITE_STANDALONE
    zoomcluster,        \* App state: the picker of nearby campsites
    campsiteDetails,    \* App state: the backend's details of a campsite
    loadingDetails,     \* App state: the loading indicator of the panel
    fetches,            \* detail requests sent and not yet settled
    nfetches,           \* number of detail requests sent so far
    renders,            \* map.once('render') callbacks not yet called
    panelHeight,        \* AppContent state: the height of the detail panel
    isDragging,         \* AppContent ref: a drag of the panel is under way
    startY,             \* AppContent ref: clientY where the drag started
    startHeight,        \* AppContent ref: panelHeight when the drag started
    dragEvent           \* the last pointer event the drag handlers were given

resolveVars == <<ret, ncalls>>

exportVars == <<site, calendarUrl, lastIcs, objectUrls, bodyLinks, nextObjectUrl>>

formatVars == <<fmtArg, fmtOut>>

filterVars == <<activeAgencies, reservableOnly, yearRoundOnly>>

selectionVars == <<selectedCampsite, paddingBottom, lastEvent>>

detailVars == <<standalone, zoomcluster, campsiteDetails, loadingDetails,
                fetches, nfetches, renders>>

dragVars == <<panelHeight, isDragging, startY, startHeight, dragEvent>>

appVars == <<mapboxAccessToken, filterVars, selectionVars, nevents,
             detailVars, dragVars>>

vars == <<now, windows, ret, ncalls, site, calendarUrl, lastIcs, objectUrls,
          bodyLinks, nextObjectUrl, fmtArg, fmtOut, running, appVars>>

-----------------------------------------------------------------------------
(* Bounds of the model *)

TicksPerDay == 2
MaxDayOffset == 730
MaxAdvance == 366
MaxCalls == 4
MaxClockDays == 2
MaxStartLen == 5
MaxNameLen == 2
MaxDownloads == 2

MaxEvents == 4

\* years before today.year and after today.year + 1 whose candidates are
\* compared with the date returned
MaxYearSpan == 2

-----------------------------------------------------------------------------
(* JavaScript numbers and Dates *)

NaN == [nan |-> TRUE, v |-> 0]

Num(n) == [nan |-> FALSE, v |-> n]

InvalidDate == [valid |-> FALSE, t |-> 0]

DateOf(t) == [valid |-> TRUE, t |-> t]

\* ECMA-262 DayFromYear(y): day number of January 1 of year y
DayFromYear(y) ==
    365 * (y - 1970) + ((y - 1969) \div 4) - ((y - 1901) \div 100)
        + ((y - 1601) \div 400)

InLeapYear(y) == (y % 4 = 0) /\ ((y % 100 # 0) \/ (y % 400 = 0))

DaysInMonth(y, m) ==
    IF m = 2 THEN (IF InLeapYear(y) THEN 29 ELSE 28)
    ELSE IF m \in {4, 6, 9, 11} THEN 30 ELSE 31

\* days of a common year that precede month m (1-based)
CumulativeDays == <<0, 31, 59, 90, 120, 151, 181, 212, 243, 273, 304, 334>>

\* days of year y that precede month m (1-based)
DaysBeforeMonth(y, m) ==
    CumulativeDays[m] + (IF m > 2 /\ InLeapYear(y) THEN 1 ELSE 0)

\* ECMA-262 MakeDay(year, month, date): month is 0-based and may lie outside
\* 0..11, date may lie outside the month; both carry over
MakeDay(year, month, date) ==
    LET ym == year + (month \div 12)
        mn == month % 12
    IN  DayFromYear(ym) + DaysBeforeMonth(ym, mn + 1) + date - 1

Day(t) == t \div TicksPerDay

TimeWithinDay(t) == t % TicksPerDay

\* ECMA-262 YearFromTime, on a day number
YearFromDay(d) ==
    LET y0 == 1970 + (d \div 366)
    IN  IF d < DayFromYear(y0 + 1) THEN y0
        ELSE IF d < DayFromYear(y0 + 2) THEN y0 + 1
        ELSE y0 + 2

\* ECMA-262 MonthFromTime, 0-based, on a day number
MonthFromDay(d) ==
    LET y == YearFromDay(d)
        dayInYear == d - DayFromYear(y)
    IN  CHOOSE m \in 0..11 :
            /\ DaysBeforeMonth(y, m + 1) <= dayInYear
            /\ dayInYear < DaysBeforeMonth(y, m + 1) + DaysInMonth(y, m + 1)

\* ECMA-262 DateFromTime, 1-based day of the month, on a day number
DateFromDay(d) ==
    LET y == YearFromDay(d)
    IN  d - DayFromYear(y) - DaysBeforeMonth(y, MonthFromDay(d) + 1) + 1

getFullYear(date) == YearFromDay(Day(date.t))

getMonth(date) == MonthFromDay(Day(date.t))

getDate(date) == DateFromDay(Day(date.t))

\* new Date(year, monthIndex, day) with JavaScript numbers: local midnight of
\* the day MakeDay gives, Invalid Date when an argument is NaN
NewDate(year, monthIndex, day) ==
    IF year.nan \/ monthIndex.nan \/ day.nan THEN InvalidDate
    ELSE DateOf(MakeDay(year.v, monthIndex.v, day.v) * TicksPerDay)

\* date.setHours(0, 0, 0, 0)
setHoursZero(date) ==
    IF date.valid THEN DateOf(Day(date.t) * TicksPerDay) ELSE InvalidDate

\* date.setDate(date.getDate() + delta): the day of the month is replaced,
\* the time within the day is kept
setDateBy(date, delta) ==
    IF date.valid
    THEN DateOf(MakeDay(getFullYear(date), getMonth(date), getDate(date) + delta)
                    * TicksPerDay + TimeWithinDay(date.t))
    ELSE InvalidDate

\* a >= b on Dates: comparison of the time values, false when either is NaN
DateGeq(a, b) == a.valid /\ b.valid /\ a.t >= b.t

-----------------------------------------------------------------------------
(* Strings, String.prototype.split and Number() *)

DigitChars == <<"0", "1", "2", "3", "4", "5", "6", "7", "8", "9">>

IsDigit(c) == \E i \in 1..10 : DigitChars[i] = c

DigitValue(c) == (CHOOSE i \in 1..10 : DigitChars[i] = c) - 1

RECURSIVE SplitFrom(_, _, _)
\* the parts of s after position i - 1, cur being the part read so far
SplitFrom(s, i, cur) ==
    IF i > Len(s) THEN <<cur>>
    ELSE IF s[i] = "-" THEN <<cur>> \o SplitFrom(s, i + 1, <<>>)
    ELSE SplitFrom(s, i + 1, Append(cur, s[i]))

\* s.split('-')
Split(s) == SplitFrom(s, 1, <<>>)

RECURSIVE DecimalValue(_)
DecimalValue(s) ==
    IF s = <<>> THEN 0
    ELSE 10 * DecimalValue(SubSeq(s, 1, Len(s) - 1)) + DigitValue(s[Len(s)])

\* Number(s) on the strings of the model's alphabet (digits, '-', a letter):
\* the empty string is 0, a run of digits is its decimal value, anything
\* else is NaN
Number(s) ==
    IF \A i \in 1..Len(s) : IsDigit(s[i]) THEN Num(DecimalValue(s)) ELSE NaN

\* x - n on a JavaScript number
Minus(x, n) == IF x.nan THEN NaN ELSE Num(x.v - n)

-----------------------------------------------------------------------------
(* resolveBookingOpenDate *)

Undefined == [kind |-> "undefined", n |-> 0]

Null == [kind |-> "null", n |-> 0]

NumberValue(n) == [kind |-> "number", n |-> n]

NoString == [kind |-> "undefined", s |-> <<>>]

Str(s) == [kind |-> "string", s |-> s]

\* const [startMonth, startDay] = w.start.split('-').map(Number), the two
\* values as they are used in arithmetic (undefined counts as NaN there)
ParseStart(start) ==
    LET parts == Split(start)
    IN  [month |-> Number(parts[1]),
         day   |-> IF Len(parts) >= 2 THEN Number(parts[2]) ELSE NaN]

\* variant: no advance is subtracted
AdvanceOf_None(w) == 0

\* w.booking_advance_days || 0
AdvanceOf(w) ==
    IF w.booking_advance_days.kind = "number" /\ w.booking_advance_days.n # 0
    THEN w.booking_advance_days.n
    ELSE 0

\* variant: the month passed to the Date constructor as it is written in the
\* window (1-based)
SeasonStart_OneBasedMonth(year, p) == NewDate(Num(year), p.month, p.day)

\* seasonStart = new Date(year, startMonth - 1, startDay)
SeasonStart(year, p) == NewDate(Num(year), Minus(p.month, 1), p.day)

\* variant: the advance is added to the season start
BookingOpen_AddsAdvance(year, p, advance) ==
    setDateBy(SeasonStart(year, p), advance)

\* bookingOpen = new Date(seasonStart); setDate(getDate() - advance)
BookingOpen(year, p, advance) == setDateBy(SeasonStart(year, p), 0 - advance)

\* variant: a candidate that falls on today does not end the scan
IsOpenOnOrAfter_Strict(bookingOpen, today) ==
    bookingOpen.valid /\ today.valid /\ bookingOpen.t > today.t

\* the comparison that ends the scan
IsOpenOnOrAfter(bookingOpen, today) == DateGeq(bookingOpen, today)

\* variant: the clock reading compared with its time of day
Today_NotTruncated(clock) == DateOf(clock)

\* the clock reading truncated to local midnight
Today(clock) == setHoursZero(DateOf(clock))

\* variant: the scan goes one year further
LastScanYear_TwoAhead(today) == getFullYear(today) + 2

\* the last year the scan looks at
LastScanYear(today) == getFullYear(today) + 1

RECURSIVE ScanYears(_, _, _, _)
\* the for loop from `year` on: the first candidate on or after today, or the
\* fallback after the last year of the scan
ScanYears(year, today, p, advance) ==
    IF year <= LastScanYear(today)
    THEN IF IsOpenOnOrAfter(BookingOpen(year, p, advance), today)
         THEN [kind |-> "return", date |-> BookingOpen(year, p, advance),
               exit |-> "loop", year |-> year]
         ELSE ScanYears(year + 1, today, p, advance)
    ELSE [kind |-> "return",
          date |-> BookingOpen(getFullYear(today) + 1, p, advance),
          exit |-> "fallback", year |-> getFullYear(today) + 1]

Thrown == [kind |-> "throw", date |-> InvalidDate, exit |-> "throw", year |-> 0]

NotCalled == [kind |-> "none", date |-> InvalidDate, exit |-> "none", year |-> 0]

\* resolveBookingOpenDate(w) with the clock reading `clock`: the value it
\* returns and the return statement it leaves through, or the TypeError of
\* w.start.split when w.start is no string
resolveBookingOpenDate(w, clock) ==
    IF w.start.kind # "string" THEN Thrown
    ELSE ScanYears(getFullYear(Today(clock)), Today(clock),
                   ParseStart(w.start.s), AdvanceOf(w))

\* variant: the call stores the advance it computed back into the window
WindowAfterResolve_StoresAdvance(w) ==
    [w EXCEPT !.booking_advance_days = NumberValue(AdvanceOf(w))]

\* what the call leaves in the window object it was given (no statement of
\* the function assigns to w or to one of its fields)
WindowAfterResolve(w) == w

-----------------------------------------------------------------------------
(* Inputs *)

WinIds == {"a", "b"}

Digit(n) == DigitChars[n + 1]

\* the "MM-DD" text of month m, day d
MMDD(m, d) ==
    <<Digit(m \div 10), Digit(m % 10), "-", Digit(d \div 10), Digit(d % 10)>>

\* longest month lengths: "02-29" is a month-day pair
MaxDayOfMonth(m) == IF m = 2 THEN 29 ELSE IF m \in {4, 6, 9, 11} THEN 30 ELSE 31

StartMonthSamples == {1, 2, 3, 5, 8, 11, 12}

StartDaySamples == {1, 29, 31}

ValidStarts ==
    {MMDD(md[1], md[2]) : md \in
        {x \in StartMonthSamples \X StartDaySamples : x[2] <= MaxDayOfMonth(x[1])}}

AdvanceValues ==
    {NumberValue(n) : n \in {0, 1, 30, 180, MaxAdvance}}
        \cup {Null, Undefined}

\* January 1 of the year of the test suite's TODAY
FirstDay == MakeDay(2026, 0, 1)

Days == FirstDay..(FirstDay + MaxDayOffset)

\* clock readings: midnight and the last tick of each day
Clocks == {d * TicksPerDay + tod : d \in Days, tod \in {0, TicksPerDay - 1}}

Window(start, end, advance) ==
    [start |-> start, end |-> end, booking_advance_days |-> advance]

\* the window of the test 'rolls to next year when booking-open date has
\* already passed this year'
ScenarioWindow == Window(Str(MMDD(5, 1)), Str(MMDD(10, 31)), NumberValue(180))

\* TODAY of the test suite, June 15, 2026
TestToday == MakeDay(2026, 5, 15)

\* the windows of the resolveBookingOpenDate tests
TestWindows ==
    { Window(Str(MMDD(11, 1)), Str(MMDD(11, 30)), NumberValue(30)),
      ScenarioWindow,
      Window(Str(MMDD(8, 1)), Str(MMDD(10, 31)), NumberValue(0)),
      Window(Str(MMDD(8, 1)), Str(MMDD(10, 31)), Null),
      Window(Str(MMDD(9, 3)), Str(MMDD(10, 31)), NumberValue(80)),
      Window(Str(MMDD(1, 1)), Str(MMDD(12, 31)), NumberValue(90)) }

NoCalls == [i \in WinIds |-> [out |-> NotCalled, at |-> 0, n |-> 0]]

-----------------------------------------------------------------------------
(* Text: number formatting, padStart, encodeURIComponent, escaping *)

RECURSIVE ToDecimal(_)
\* String(n) for an integer n >= 0
ToDecimal(n) ==
    IF n < 10 THEN <<Digit(n)>> ELSE Append(ToDecimal(n \div 10), Digit(n % 10))

\* s.padStart(2, '0')
PadStart2(s) == IF Len(s) >= 2 THEN s ELSE <<"0">> \o s

NaNText == <<"N", "a", "N">>

\* fmtDate(date): `${y}${m}${d}` of the local calendar fields; the fields of an
\* Invalid Date are NaN
fmtDate(date) ==
    IF date.valid
    THEN ToDecimal(getFullYear(date))
             \o PadStart2(ToDecimal(getMonth(date) + 1))
             \o PadStart2(ToDecimal(getDate(date)))
    ELSE NaNText \o NaNText \o NaNText

MonthShort ==
    <<<<"J", "a", "n">>,
      <<"F", "e", "b">>,
      <<"M", "a", "r">>,
      <<"A", "p", "r">>,
      <<"M", "a", "y">>,
      <<"J", "u", "n">>,
      <<"J", "u", "l">>,
      <<"A", "u", "g">>,
      <<"S", "e", "p">>,
      <<"O", "c", "t">>,
      <<"N", "o", "v">>,
      <<"D", "e", "c">>>>

InvalidDateText == <<"I", "n", "v", "a", "l", "i", "d", " ", "D", "a", "t", "e">>

\* formatWindowDate(mmdd): month abbreviation and day of new Date(2000,
\* month - 1, day), as the en-US locale of the test suite writes them
formatWindowDate(mmdd) ==
    LET p == ParseStart(mmdd)
        date == NewDate(Num(2000), Minus(p.month, 1), p.day)
    IN  IF date.valid
        THEN MonthShort[getMonth(date) + 1] \o <<" ">> \o ToDecimal(getDate(date))
        ELSE InvalidDateText

\* the characters encodeURIComponent leaves as they are
UnreservedChars ==
    {"A", "B", "C", "D", "E", "F", "G", "H", "I", "J", "K", "L", "M",
     "N", "O", "P", "Q", "R", "S", "T", "U", "V", "W", "X", "Y", "Z",
     "a", "b", "c", "d", "e", "f", "g", "h", "i", "j", "k", "l", "m",
     "n", "o", "p", "q", "r", "s", "t", "u", "v", "w", "x", "y", "z",
     "0", "1", "2", "3", "4", "5", "6", "7", "8", "9", "-", "_", ".",
     "!", "~", "*", "'", "(", ")"}

\* the UTF-8 percent-encoding of the other characters of the model's texts
PercentCode(c) ==
    CASE c = " " -> <<"%", "2", "0">>
      [] c = "," -> <<"%", "2", "C">>
      [] c = ":" -> <<"%", "3", "A">>
      [] c = "/" -> <<"%", "2", "F">>
      [] c = "&" -> <<"%", "2", "6">>
      [] c = "=" -> <<"%", "3", "D">>
      [] c = "#" -> <<"%", "2", "3">>
      [] c = "?" -> <<"%", "3", "F">>
      [] c = "%" -> <<"%", "2", "5">>
      [] c = "\\" -> <<"%", "5", "C">>
      [] c = "\n" -> <<"%", "0", "A">>
      [] c = "\r" -> <<"%", "0", "D">>
      [] c = "<U+2014>" -> <<"%", "E", "2", "%", "8", "0", "%", "9", "4">>
      [] c = "<U+2013>" -> <<"%", "E", "2", "%", "8", "0", "%", "9", "3">>

\* variant: every character written as it is
EncodeChar_Raw(c) == <<c>>

\* what encodeURIComponent writes for one character
EncodeChar(c) == IF c \in UnreservedChars THEN <<c>> ELSE PercentCode(c)

RECURSIVE EncodeRange(_, _, _)
\* the encodings of s[lo..hi], one after the other
EncodeRange(s, lo, hi) ==
    IF lo > hi THEN <<>>
    ELSE IF lo = hi THEN EncodeChar(s[lo])
    ELSE EncodeRange(s, lo, (lo + hi) \div 2)
             \o EncodeRange(s, (lo + hi) \div 2 + 1, hi)

encodeURIComponent(s) == EncodeRange(s, 1, Len(s))

RECURSIVE EscapeRange(_, _, _)
\* s[lo..hi] with every ',' replaced by '\,'
EscapeRange(s, lo, hi) ==
    IF lo > hi THEN <<>>
    ELSE IF lo = hi THEN (IF s[lo] = "," THEN <<"\\", ",">> ELSE <<s[lo]>>)
    ELSE EscapeRange(s, lo, (lo + hi) \div 2)
             \o EscapeRange(s, (lo + hi) \div 2 + 1, hi)

\* s.replace(/,/g, '\\,')
EscapeCommas(s) == EscapeRange(s, 1, Len(s))

\* variant: only null and undefined count as false
Truthy_EmptyIsPresent(v) == v.kind = "string"

\* a value used as a condition
Truthy(v) == v.kind = "string" /\ v.s # <<>>

\* a string-or-null value inside a template literal
TextOf(v) ==
    IF v.kind = "string" THEN v.s
    ELSE IF v.kind = "null" THEN <<"n", "u", "l", "l">>
    ELSE <<"u", "n", "d", "e", "f", "i", "n", "e", "d">>

\* a number-or-null value inside a template literal
NumberText(v) ==
    IF v.kind = "number" THEN ToDecimal(v.n)
    ELSE IF v.kind = "null" THEN <<"n", "u", "l", "l">>
    ELSE <<"u", "n", "d", "e", "f", "i", "n", "e", "d">>

RECURSIVE JoinAll(_, _)
\* variant: lines.join(sep), the empty lines kept
JoinAll(lines, sep) ==
    IF lines = <<>> THEN <<>>
    ELSE IF Len(lines) = 1 THEN lines[1]
    ELSE lines[1] \o sep \o JoinAll(Tail(lines), sep)

\* lines.filter(Boolean).join(sep)
RECURSIVE JoinNonEmpty(_, _)
JoinNonEmpty(lines, sep) ==
    IF lines = <<>> THEN <<>>
    ELSE LET rest == JoinNonEmpty(Tail(lines), sep)
         IN  IF lines[1] = <<>> THEN rest
             ELSE IF rest = <<>> THEN lines[1]
             ELSE lines[1] \o sep \o rest

-----------------------------------------------------------------------------
(* buildCalendarUrl *)

\* variant: the end date computed on the very Date object of the start
EventDates_Aliased(bookingOpen) ==
    [start |-> setDateBy(bookingOpen, 1), end |-> setDateBy(bookingOpen, 1)]

\* bookingOpen and nextDay = new Date(bookingOpen); nextDay.setDate(
\* nextDay.getDate() + 1), the two dates an export writes
EventDates(bookingOpen) ==
    [start |-> bookingOpen, end |-> setDateBy(bookingOpen, 1)]

\* variant: an advance of 0 counts as an advance
HasAdvance_NonNegative(w) ==
    w.booking_advance_days.kind = "number" /\ w.booking_advance_days.n >= 0

\* w.booking_advance_days > 0
HasAdvance(w) ==
    w.booking_advance_days.kind = "number" /\ w.booking_advance_days.n > 0

\* w.start === '01-01' && w.end === '12-31'
IsYearRound(w) == w.start = Str(MMDD(1, 1)) /\ w.end = Str(MMDD(12, 31))

EventTitle(campsite, w) ==
    IF HasAdvance(w)
    THEN <<"B", "o", "o", "k", " ">> \o TextOf(campsite.name)
             \o <<" ", "(", "r", "e", "s", "e", "r", "v", "a", "t", "i",
               "o", "n", "s", " ", "o", "p", "e", "n", ")">>
    ELSE TextOf(campsite.name) \o <<" ", "s", "e", "a", "s", "o", "n", " ", "o", "p", "e", "n",
           "s">>

SeasonRange(w) ==
    IF IsYearRound(w) THEN <<"y", "e", "a", "r", "-", "r", "o", "u", "n", "d">>
    ELSE formatWindowDate(w.start.s) \o <<" ", "<U+2013>", " ">>
             \o formatWindowDate(w.end.s)

SeasonSentence(campsite, w, seasonRange) ==
    IF HasAdvance(w)
    THEN <<"R", "e", "s", "e", "r", "v", "a", "t", "i", "o", "n", "s",
           " ", "o", "p", "e", "n", " ", "t", "o", "d", "a", "y", " ",
           "<U+2014>", " ">>
             \o NumberText(w.booking_advance_days)
             \o <<" ", "d", "a", "y", "s", " ", "b", "e", "f", "o", "r",
                  "e", " ", "t", "h", "e", " ">>
             \o seasonRange \o <<" ", "s", "e", "a", "s", "o", "n", ".">>
    ELSE TextOf(campsite.name) \o <<" ", "o", "p", "e", "n", "s", " ", "f", "o", "r", " ", "t",
           "h", "e", " ">>
             \o seasonRange \o <<" ", "s", "e", "a", "s", "o", "n", ".">>

\* the details of buildCalendarUrl: the sentence and, when official_url is
\* truthy, the Info line
EventDetails(campsite, w) ==
    JoinNonEmpty(
        << SeasonSentence(campsite, w, SeasonRange(w)),
           IF Truthy(campsite.official_url)
           THEN <<"I", "n", "f", "o", ":", " ">> \o TextOf(campsite.official_url)
           ELSE <<>> >>,
        <<"\n">>)

UrlBase ==
    <<"h", "t", "t", "p", "s", ":", "/", "/", "w", "w", "w", ".", "g",
      "o", "o", "g", "l", "e", ".", "c", "o", "m", "/", "c", "a", "l",
      "e", "n", "d", "a", "r", "/", "r", "e", "n", "d", "e", "r", "?",
      "a", "c", "t", "i", "o", "n", "=", "T", "E", "M", "P", "L", "A",
      "T", "E", "&", "t", "e", "x", "t", "=">>

\* buildCalendarUrl(campsite, w) once resolveBookingOpenDate(w), called with
\* the clock reading `clock`, has ended with r: the string it returns, or the
\* error of resolveBookingOpenDate
CalendarUrlOf(campsite, w, r, clock) ==
    LET dates == EventDates(r.date)
    IN  IF r.kind = "throw" THEN [kind |-> "throw", url |-> <<>>, at |-> clock]
        ELSE [kind |-> "return",
              url |-> UrlBase \o encodeURIComponent(EventTitle(campsite, w))
                        \o <<"&", "d", "a", "t", "e", "s", "=">> \o fmtDate(dates.start)
                        \o <<"/">> \o fmtDate(dates.end)
                        \o <<"&", "d", "e", "t", "a", "i", "l", "s", "=">>
                        \o encodeURIComponent(EventDetails(campsite, w)),
              at |-> clock]

\* buildCalendarUrl(campsite, w) with the clock reading `clock`
buildCalendarUrl(campsite, w, clock) ==
    CalendarUrlOf(campsite, w, resolveBookingOpenDate(w, clock), clock)

-----------------------------------------------------------------------------
(* generateWindowICS *)

IcsSummary(campsite, w) ==
    IF HasAdvance(w)
    THEN <<"B", "o", "o", "k", " ">> \o TextOf(campsite.name)
             \o <<" ", "(", "r", "e", "s", "e", "r", "v", "a", "t", "i",
               "o", "n", "s", " ", "o", "p", "e", "n", ")">>
    ELSE TextOf(campsite.name) \o <<" ", "s", "e", "a", "s", "o", "n", " ", "o", "p", "e", "n",
           "s">>

IcsSeasonRange(w) ==
    IF IsYearRound(w) THEN <<"y", "e", "a", "r", "-", "r", "o", "u", "n", "d">>
    ELSE formatWindowDate(w.start.s) \o <<" ", "<U+2013>", " ">>
             \o formatWindowDate(w.end.s)

\* variant: the description written without the comma escape
IcsDescription_Unescaped(campsite, w) ==
    IF HasAdvance(w)
    THEN <<"R", "e", "s", "e", "r", "v", "a", "t", "i", "o", "n", "s",
       " ", "o", "p", "e", "n", " ", "t", "o", "d", "a", "y", " ",
       "<U+2014>", " ">>
             \o NumberText(w.booking_advance_days)
             \o <<" ", "d", "a", "y", "s", " ", "b", "e", "f", "o", "r",
                  "e", " ", "t", "h", "e", " ">>
             \o IcsSeasonRange(w) \o <<" ", "s", "e", "a", "s", "o", "n", ".">>
    ELSE TextOf(campsite.name) \o <<" ", "o", "p", "e", "n", "s", " ", "f", "o", "r", " ", "t",
           "h", "e", " ">>
             \o IcsSeasonRange(w) \o <<" ", "s", "e", "a", "s", "o", "n", ".">>

IcsDescription(campsite, w) ==
    EscapeCommas(
        IF HasAdvance(w)
        THEN <<"R", "e", "s", "e", "r", "v", "a", "t", "i", "o", "n", "s",
           " ", "o", "p", "e", "n", " ", "t", "o", "d", "a", "y", " ",
           "<U+2014>", " ">>
                 \o NumberText(w.booking_advance_days)
                 \o <<" ", "d", "a", "y", "s", " ", "b", "e", "f", "o", "r",
                  "e", " ", "t", "h", "e", " ">>
                 \o IcsSeasonRange(w) \o <<" ", "s", "e", "a", "s", "o", "n", ".">>
        ELSE TextOf(campsite.name) \o <<" ", "o", "p", "e", "n", "s", " ", "f", "o", "r", " ", "t",
           "h", "e", " ">>
                 \o IcsSeasonRange(w) \o <<" ", "s", "e", "a", "s", "o", "n", ".">>)

\* variant: the lines joined by a line feed alone
CRLF_LfOnly == <<"\n">>

CRLF == <<"\r", "\n">>

\* icsContent: the lines of the document, the empty one dropped, joined by
\* CRLF
IcsContent(campsite, w, bookingOpen) ==
    JoinNonEmpty(
        << <<"B", "E", "G", "I", "N", ":", "V", "C", "A", "L", "E", "N",
             "D", "A", "R">>,
           <<"V", "E", "R", "S", "I", "O", "N", ":", "2", ".", "0">>,
           <<"B", "E", "G", "I", "N", ":", "V", "E", "V", "E", "N", "T">>,
           <<"D", "T", "S", "T", "A", "R", "T", ";", "V", "A", "L", "U",
             "E", "=", "D", "A", "T", "E", ":">>
               \o fmtDate(EventDates(bookingOpen).start),
           <<"D", "T", "E", "N", "D", ";", "V", "A", "L", "U", "E", "=",
             "D", "A", "T", "E", ":">>
               \o fmtDate(EventDates(bookingOpen).end),
           <<"S", "U", "M", "M", "A", "R", "Y", ":">>
               \o EscapeCommas(IcsSummary(campsite, w)),
           <<"D", "E", "S", "C", "R", "I", "P", "T", "I", "O", "N", ":">>
               \o IcsDescription(campsite, w),
           IF Truthy(campsite.official_url)
           THEN <<"U", "R", "L", ":">> \o TextOf(campsite.official_url)
           ELSE <<>>,
           <<"E", "N", "D", ":", "V", "E", "V", "E", "N", "T">>,
           <<"E", "N", "D", ":", "V", "C", "A", "L", "E", "N", "D", "A",
             "R">> >>,
        CRLF)

WhiteSpace == {" ", "\n", "\r"}

UpperChars ==
    <<"A", "B", "C", "D", "E", "F", "G", "H", "I", "J", "K", "L", "M",
      "N", "O", "P", "Q", "R", "S", "T", "U", "V", "W", "X", "Y", "Z">>

LowerChars ==
    <<"a", "b", "c", "d", "e", "f", "g", "h", "i", "j", "k", "l", "m",
      "n", "o", "p", "q", "r", "s", "t", "u", "v", "w", "x", "y", "z">>

\* c.toLowerCase() on the characters of the model's texts
LowerCase(c) ==
    IF \E k \in 1..26 : UpperChars[k] = c
    THEN LowerChars[CHOOSE k \in 1..26 : UpperChars[k] = c]
    ELSE c

RECURSIVE DownloadStem(_, _)
\* name.replace(/\s+/g, '-').toLowerCase(), from position i on
DownloadStem(name, i) ==
    IF i > Len(name) THEN <<>>
    ELSE IF name[i] \in WhiteSpace
         THEN (IF i > 1 /\ name[i - 1] \in WhiteSpace THEN <<>> ELSE <<"-">>)
                  \o DownloadStem(name, i + 1)
         ELSE <<LowerCase(name[i])>> \o DownloadStem(name, i + 1)

DownloadName(campsite) ==
    DownloadStem(TextOf(campsite.name), 1)
        \o <<"-", "b", "o", "o", "k", "i", "n", "g", ".", "i", "c", "s">>

NoUrl == [kind |-> "none", url |-> <<>>, at |-> 0]

NoIcs ==
    [kind |-> "none", content |-> <<>>, href |-> 0, download |-> <<>>, at |-> 0]

TestCampsite ==
    [name |-> Str(<<"R", "a">>), official_url |-> Null]

NotFormatted == [kind |-> "none", text |-> <<>>]

\* fmtDate has not been called
FormatIdle ==
    /\ fmtArg = InvalidDate
    /\ fmtOut = NotFormatted

\* no export operation is under way
NotRunning == [op |-> "none", r |-> NotCalled, reads |-> 0, at |-> 0, done |-> 0]

\* no map click and no close-button press has been handled
NoEvent == [kind |-> "none", features |-> <<>>, defined |-> FALSE]

\* Object.keys(AGENCY_COLORS), in the order the keys are written
AgencyKeys == <<"wa-state-parks", "nps", "usfs", "blm">>

\* variant: the initial array without its last key
InitialAgencies_NoBlm == SubSeq(AgencyKeys, 1, 3)

\* useState(Object.keys(AGENCY_COLORS))
InitialAgencies == AgencyKeys

\* window.innerHeight, in pixels
InnerHeight == 800

\* useState(null) of zoomcluster and campsiteDetails, useState(false) of
\* loadingDetails, no request sent, no render callback registered
DetailIdle ==
    /\ zoomcluster = Null
    /\ campsiteDetails = Null
    /\ loadingDetails = FALSE
    /\ fetches = {}
    /\ nfetches = 0
    /\ renders = <<>>

\* useState(window.innerHeight * 0.3), useRef(false), useRef(0), useRef(0)
DragIdle ==
    /\ panelHeight = Num((InnerHeight * 3) \div 10)
    /\ isDragging = FALSE
    /\ startY = Num(0)
    /\ startHeight = Num(0)
    /\ dragEvent = "none"

\* the state of AppContent when it mounts: the useState initial values
AppMounted ==
    /\ standalone = "true"
    /\ DetailIdle
    /\ DragIdle
    /\ mapboxAccessToken = TRUE
    /\ selectedCampsite = Null
    /\ activeAgencies = InitialAgencies
    /\ reservableOnly = FALSE
    /\ yearRoundOnly = FALSE
    /\ paddingBottom = 0
    /\ nevents = 0
    /\ lastEvent = NoEvent

\* App without a token: the error message is rendered and AppContent, with
\* its state and its controls, does not exist
AppNotMounted ==
    /\ standalone = "true"
    /\ DetailIdle
    /\ DragIdle
    /\ mapboxAccessToken = FALSE
    /\ selectedCampsite = Null
    /\ activeAgencies = <<>>
    /\ reservableOnly = FALSE
    /\ yearRoundOnly = FALSE
    /\ paddingBottom = 0
    /\ nevents = 0
    /\ lastEvent = NoEvent

\* no export has run, fmtDate has not been called, the app has just mounted
ExportIdle ==
    /\ site = TestCampsite
    /\ calendarUrl = NoUrl
    /\ lastIcs = NoIcs
    /\ objectUrls = {}
    /\ bodyLinks = {}
    /\ nextObjectUrl = 0
    /\ FormatIdle
    /\ running = NotRunning
    /\ AppMounted

-----------------------------------------------------------------------------
(* Calls of resolveBookingOpenDate *)

\* one call of resolveBookingOpenDate on window object i
Call(i) ==
    /\ ncalls < MaxCalls
    /\ ret' = [ret EXCEPT ![i] =
                  [out |-> resolveBookingOpenDate(windows[i], now), at |-> now,
                   n |-> ret[i].n + 1]]
    /\ windows' = [windows EXCEPT ![i] = WindowAfterResolve(windows[i])]
    /\ ncalls' = ncalls + 1
    /\ UNCHANGED <<now, exportVars, formatVars, running, appVars>>

\* every valid window under every clock reading, one call
InitResolve ==
    /\ now \in Clocks
    /\ \E st \in ValidStarts, adv \in AdvanceValues :
           windows = [i \in WinIds |->
                         IF i = "a" THEN Window(Str(st), Str(MMDD(10, 31)), adv)
                         ELSE ScenarioWindow]
    /\ ret = NoCalls
    /\ ncalls = MaxCalls - 1
    /\ ExportIdle

NextResolve == Call("a")

SpecResolve == InitResolve /\ [][NextResolve]_vars

\* the clock advances by one tick
Tick ==
    /\ now < (TestToday + MaxClockDays) * TicksPerDay
    /\ now' = now + 1
    /\ UNCHANGED <<windows, ret, ncalls, exportVars, formatVars, running, appVars>>

\* two windows of the test suite, called in any order while the clock runs
InitCalls ==
    /\ now = TestToday * TicksPerDay
    /\ windows \in [WinIds -> TestWindows]
    /\ ret = NoCalls
    /\ ncalls = 0
    /\ ExportIdle

NextCalls == Tick \/ \E i \in WinIds : Call(i)

SpecCalls == InitCalls /\ [][NextCalls]_vars

StartAlphabet == {"0", "1", "3", "5", "-", "a"}

RECURSIVE StringsUpTo(_, _)
\* the strings over `alphabet` of length at most n
StringsUpTo(alphabet, n) ==
    IF n = 0 THEN {<<>>}
    ELSE LET shorter == StringsUpTo(alphabet, n - 1)
         IN  shorter \cup {Append(x, c) : x \in shorter, c \in alphabet}

\* any text, or no text at all, as the start of the window
InitParse ==
    /\ now \in {TestToday * TicksPerDay, TestToday * TicksPerDay + 1}
    /\ \E st \in {Str(x) : x \in StringsUpTo(StartAlphabet, MaxStartLen)}
                      \cup {NoString},
          adv \in {NumberValue(0), NumberValue(30)} :
           windows = [i \in WinIds |->
                         IF i = "a" THEN Window(st, Str(MMDD(10, 31)), adv)
                         ELSE ScenarioWindow]
    /\ ret = NoCalls
    /\ ncalls = MaxCalls - 1
    /\ ExportIdle

SpecParse == InitParse /\ [][NextResolve]_vars

-----------------------------------------------------------------------------
(* The export operations *)

\* one call of buildCalendarUrl(campsite, windows[i])
BuildCalendarUrl(i) ==
    /\ calendarUrl' = buildCalendarUrl(site, windows[i], now)
    /\ UNCHANGED <<now, windows, resolveVars, site, lastIcs, objectUrls,
                   bodyLinks, nextObjectUrl, formatVars, running, appVars>>

\* generateWindowICS(campsite, windows[i]) once resolveBookingOpenDate, called
\* with the clock reading `clock`, has ended with r
IcsDownload(i, r, clock) ==
    LET url == nextObjectUrl + 1
    IN  IF r.kind = "throw"
        THEN /\ lastIcs' = [NoIcs EXCEPT !.kind = "throw", !.at = clock]
             /\ UNCHANGED <<objectUrls, bodyLinks, nextObjectUrl>>
        ELSE /\ nextObjectUrl' = url
             /\ \E clickThrows \in BOOLEAN :
                    /\ lastIcs' =
                           [kind |-> IF clickThrows THEN "throw" ELSE "return",
                            content |-> IcsContent(site, windows[i], r.date),
                            href |-> url,
                            download |-> DownloadName(site),
                            at |-> clock]
                    /\ IF clickThrows
                       THEN /\ objectUrls' = objectUrls \cup {url}
                            /\ bodyLinks' = bodyLinks \cup {url}
                       ELSE /\ objectUrls' = (objectUrls \cup {url}) \ {url}
                            /\ bodyLinks' = (bodyLinks \cup {url}) \ {url}

\* one call of generateWindowICS(campsite, windows[i]): the document is built,
\* an object URL is created for it, a link carrying it is attached to the
\* document and clicked; when the click returns the link is detached and the
\* object URL revoked, when the click throws the call ends there
GenerateWindowICS(i) ==
    /\ nextObjectUrl < MaxDownloads
    /\ IcsDownload(i, resolveBookingOpenDate(windows[i], now), now)
    /\ UNCHANGED <<now, windows, resolveVars, site, calendarUrl, formatVars,
                   running, appVars>>

NameAlphabet == {"R", ","}

\* short names with and without commas, and one with a run of white space
CampsiteNames ==
    (StringsUpTo(NameAlphabet, MaxNameLen) \ {<<>>}) \cup {<<"R", " ", " ", "B">>}

OfficialUrls == {Null, Str(<<>>), Str(<<"u", ",", "x">>)}

\* windows with and without an advance, year-round and seasonal, opening on
\* the last day of a month and of the year, and one with no start at all
ExportWindows ==
    { Window(Str(MMDD(11, 1)), Str(MMDD(11, 30)), NumberValue(30)),
      Window(Str(MMDD(1, 1)), Str(MMDD(12, 31)), NumberValue(1)),
      Window(Str(MMDD(1, 1)), Str(MMDD(12, 31)), NumberValue(0)),
      Window(Str(MMDD(1, 1)), Str(MMDD(10, 31)), NumberValue(30)),
      Window(Str(MMDD(3, 1)), Str(MMDD(10, 31)), NumberValue(1)),
      Window(Str(MMDD(12, 31)), Str(MMDD(12, 31)), Null),
      Window(Str(MMDD(8, 1)), Str(MMDD(10, 31)), Undefined),
      ScenarioWindow,
      Window(NoString, Str(MMDD(10, 31)), NumberValue(30)) }

\* the test suite's TODAY, the last day of that year, and the same day one
\* year on
ExportDays == {TestToday, MakeDay(2026, 11, 31), MakeDay(2027, 5, 15)}

InitExport ==
    /\ now \in {d * TicksPerDay + (TicksPerDay - 1) : d \in ExportDays}
    /\ \E w \in ExportWindows :
           windows = [i \in WinIds |-> IF i = "a" THEN w ELSE ScenarioWindow]
    /\ ret = NoCalls
    /\ ncalls = 0
    /\ site \in [name : {Str(x) : x \in CampsiteNames},
                 official_url : OfficialUrls]
    /\ calendarUrl = NoUrl
    /\ lastIcs = NoIcs
    /\ objectUrls = {}
    /\ bodyLinks = {}
    /\ nextObjectUrl = 0
    /\ FormatIdle
    /\ running = NotRunning
    /\ AppMounted

NextExport == BuildCalendarUrl("a") \/ GenerateWindowICS("a")

SpecExport == InitExport /\ [][NextExport]_vars

EncodeAlphabet == {"R", "&", " "}

\* names holding the characters that separate and introduce URL parameters
EncodeNames ==
    (StringsUpTo(EncodeAlphabet, MaxNameLen) \ {<<>>})
        \cup {<<"a", "=", "b", "#", "c", "?", "d">>}

\* official_url null, absent, empty, and two texts holding reserved characters
EncodeUrls ==
    {Null, Undefined, Str(<<>>),
     Str(<<"h", ":", "/", "/", "x", "?", "q", "=", "1", "&", "r", "#", "t">>),
     Str(<<"u", " ", ",", "x">>)}

EncodeWindows ==
    { Window(Str(MMDD(11, 1)), Str(MMDD(11, 30)), NumberValue(30)),
      Window(Str(MMDD(1, 1)), Str(MMDD(12, 31)), NumberValue(0)),
      Window(Str(MMDD(8, 1)), Str(MMDD(10, 31)), Null),
      ScenarioWindow }

\* the exports of campsites whose texts hold reserved characters
InitEncode ==
    /\ now = TestToday * TicksPerDay + 1
    /\ \E w \in EncodeWindows :
           windows = [i \in WinIds |-> IF i = "a" THEN w ELSE ScenarioWindow]
    /\ ret = NoCalls
    /\ ncalls = 0
    /\ site \in [name : {Str(x) : x \in EncodeNames}, official_url : EncodeUrls]
    /\ calendarUrl = NoUrl
    /\ lastIcs = NoIcs
    /\ objectUrls = {}
    /\ bodyLinks = {}
    /\ nextObjectUrl = 0
    /\ FormatIdle
    /\ running = NotRunning
    /\ AppMounted

SpecEncode == InitEncode /\ [][NextExport]_vars

-----------------------------------------------------------------------------
(* Calls of fmtDate *)

\* one call of fmtDate(fmtArg)
FmtDate ==
    /\ fmtOut = NotFormatted
    /\ fmtOut' = [kind |-> "return", text |-> fmtDate(fmtArg)]
    /\ UNCHANGED <<now, windows, resolveVars, exportVars, fmtArg, running, appVars>>

\* the Date objects fmtDate is given: every time of every day of the two
\* years, and the Invalid Date that resolveBookingOpenDate returns for a
\* start it cannot read
FormatDates == {DateOf(t) : t \in Clocks} \cup {InvalidDate}

InitFormat ==
    /\ now = TestToday * TicksPerDay
    /\ windows = [i \in WinIds |-> ScenarioWindow]
    /\ ret = NoCalls
    /\ ncalls = 0
    /\ site = TestCampsite
    /\ calendarUrl = NoUrl
    /\ lastIcs = NoIcs
    /\ objectUrls = {}
    /\ bodyLinks = {}
    /\ nextObjectUrl = 0
    /\ fmtArg \in FormatDates
    /\ fmtOut = NotFormatted
    /\ running = NotRunning
    /\ AppMounted

NextFormat == FmtDate

SpecFormat == InitFormat /\ [][NextFormat]_vars

-----------------------------------------------------------------------------
(* An export operation while the clock runs: the call of                     *)
(* resolveBookingOpenDate, which reads the clock, and the rest of the        *)
(* function, with ticks of the clock in between                              *)

\* variant: the dates are written from a second resolution, made when the
\* text is put together
BookingOpenForDates_ReRead(r, w, clock) == resolveBookingOpenDate(w, clock)

\* const bookingOpen = resolveBookingOpenDate(w): the value both dates are
\* written from, whatever the clock shows by then
BookingOpenForDates(r, w, clock) == r

\* the first statement of buildCalendarUrl (op = "url") or generateWindowICS
\* (op = "ics"): resolveBookingOpenDate(w), with its new Date()
ResolveStep(op) ==
    /\ running.op = "none"
    /\ op = "ics" => nextObjectUrl < MaxDownloads
    /\ running' = [op |-> op, r |-> resolveBookingOpenDate(windows["a"], now),
                   reads |-> 1, at |-> now, done |-> now]
    /\ UNCHANGED <<now, windows, resolveVars, exportVars, formatVars, appVars>>

\* the rest of buildCalendarUrl
FinishUrl ==
    /\ running.op = "url"
    /\ calendarUrl' =
           CalendarUrlOf(site, windows["a"],
                         BookingOpenForDates(running.r, windows["a"], now),
                         running.at)
    /\ running' = [running EXCEPT !.op = "none", !.done = now]
    /\ UNCHANGED <<now, windows, resolveVars, site, lastIcs, objectUrls,
                   bodyLinks, nextObjectUrl, formatVars, appVars>>

\* the rest of generateWindowICS
FinishIcs ==
    /\ running.op = "ics"
    /\ IcsDownload("a", BookingOpenForDates(running.r, windows["a"], now),
                   running.at)
    /\ running' = [running EXCEPT !.op = "none", !.done = now]
    /\ UNCHANGED <<now, windows, resolveVars, site, calendarUrl, formatVars,
                   appVars>>

\* windows whose booking opens on the test suite's TODAY, so that a reading
\* made after midnight resolves to the following year, the window of the
\* scenario, and one with no start at all
RunWindows ==
    { Window(Str(MMDD(6, 15)), Str(MMDD(10, 31)), NumberValue(0)),
      Window(Str(MMDD(7, 15)), Str(MMDD(10, 31)), NumberValue(30)),
      ScenarioWindow,
      Window(NoString, Str(MMDD(10, 31)), NumberValue(30)) }

InitRun ==
    /\ now = TestToday * TicksPerDay + (TicksPerDay - 1)
    /\ \E w \in RunWindows :
           windows = [i \in WinIds |-> IF i = "a" THEN w ELSE ScenarioWindow]
    /\ ret = NoCalls
    /\ ncalls = 0
    /\ ExportIdle

NextRun ==
    \/ Tick
    \/ \E op \in {"url", "ics"} : ResolveStep(op)
    \/ FinishUrl
    \/ FinishIcs

SpecRun == InitRun /\ [][NextRun]_vars

-----------------------------------------------------------------------------
(* AppContent (web/src/App.jsx): the filters, the selection, the panel *)

calendarVars == <<now, windows, resolveVars, exportVars, formatVars, running>>

CIRCLES_LAYER_ID == "campsite-circles"

\* a property that holds an array or an object: the value itself, or, as
\* Mapbox hands the properties of a rendered feature, its JSON text
Nested(v, asText) == [json |-> asText, v |-> v]

\* the properties of a campsite feature
Campsite(name, agency, reservable, ws, asText) ==
    [kind |-> "object", name |-> name, agency_short |-> agency,
     reservable |-> reservable,
     types |-> Nested(<<"tent">>, asText),
     availability_windows |-> Nested(ws, asText),
     availability |-> Nested(<<>>, FALSE)]

Feature(layer, properties) == [layer |-> layer, properties |-> properties]

Fishtrap ==
    Campsite("Fishtrap Recreation Area", "blm", FALSE,
             <<Window(Str(MMDD(1, 1)), Str(MMDD(12, 31)), NumberValue(0))>>, TRUE)

DeceptionPass ==
    Campsite("Deception Pass", "wa-state-parks", TRUE,
             <<Window(Str(MMDD(5, 1)), Str(MMDD(9, 30)), NumberValue(180))>>, FALSE)

SampleCampsites == {Fishtrap, DeceptionPass}

\* event.features of a map click: absent, empty, features of another layer
\* only, one campsite, a campsite under a feature of another layer, and two
\* campsites
ClickEvents ==
    { [defined |-> FALSE, features |-> <<>>],
      [defined |-> TRUE, features |-> <<>>],
      [defined |-> TRUE, features |-> <<Feature("water", Fishtrap)>>],
      [defined |-> TRUE, features |-> <<Feature(CIRCLES_LAYER_ID, Fishtrap)>>],
      [defined |-> TRUE,
       features |-> <<Feature("water", Fishtrap),
                      Feature(CIRCLES_LAYER_ID, DeceptionPass)>>],
      [defined |-> TRUE,
       features |-> <<Feature(CIRCLES_LAYER_ID, DeceptionPass),
                      Feature(CIRCLES_LAYER_ID, Fishtrap)>>] }

\* variant: the first feature of the click, of whatever layer
FindCampsiteFeature_AnyLayer(features) == IF features = <<>> THEN 0 ELSE 1

RECURSIVE FindFrom(_, _)
\* index of the first feature of the campsite-circles layer from position k
\* on, 0 when there is none
FindFrom(features, k) ==
    IF k > Len(features) THEN 0
    ELSE IF features[k].layer = CIRCLES_LAYER_ID THEN k
    ELSE FindFrom(features, k + 1)

\* features?.find(f => f.layer.id === CIRCLES_LAYER_ID), as an index
FindCampsiteFeature(features) == FindFrom(features, 1)

\* typeof x === 'string' ? JSON.parse(x) : x
ParseIfString(x) == [json |-> FALSE, v |-> x.v]

\* the object handleMapClick passes to setSelectedCampsite
SelectedFrom(p) ==
    [p EXCEPT !.types = ParseIfString(p.types),
              !.availability_windows = ParseIfString(p.availability_windows),
              !.availability = ParseIfString(p.availability)]

\* prev.includes(agency)
Includes(arr, x) == \E k \in 1..Len(arr) : arr[k] = x

\* prev.filter((a) => a !== agency)
RECURSIVE Without(_, _)
Without(arr, x) ==
    IF arr = <<>> THEN <<>>
    ELSE IF arr[1] = x THEN Without(Tail(arr), x)
    ELSE <<arr[1]>> \o Without(Tail(arr), x)

\* variant: the agency is appended whether or not it is in the array
toggleAgency_AlwaysAppend(prev, agency) == Append(prev, agency)

\* the updater of toggleAgency
toggleAgency(prev, agency) ==
    IF Includes(prev, agency) THEN Without(prev, agency) ELSE Append(prev, agency)

\* AppContent is rendered and may handle one more event
Interactive == mapboxAccessToken /\ nevents < MaxEvents

\* a click on the button of agency AgencyKeys[k]
ToggleAgency(k) ==
    /\ Interactive
    /\ activeAgencies' = toggleAgency(activeAgencies, AgencyKeys[k])
    /\ nevents' = nevents + 1
    /\ UNCHANGED <<calendarVars, mapboxAccessToken, selectionVars, detailVars,
                   dragVars,
                   reservableOnly, yearRoundOnly>>

\* a click on the Reservable button
ToggleReservable ==
    /\ Interactive
    /\ reservableOnly' = ~reservableOnly
    /\ nevents' = nevents + 1
    /\ UNCHANGED <<calendarVars, mapboxAccessToken, selectionVars, detailVars,
                   dragVars,
                   activeAgencies, yearRoundOnly>>

\* a click on the Year-round button
ToggleYearRound ==
    /\ Interactive
    /\ yearRoundOnly' = ~yearRoundOnly
    /\ nevents' = nevents + 1
    /\ UNCHANGED <<calendarVars, mapboxAccessToken, selectionVars, detailVars,
                   dragVars,
                   activeAgencies, reservableOnly>>

\* handleMapClick(event): the first feature of the campsite-circles layer
\* among event.features is selected and the map padded for the panel; with
\* no such feature the selection is cleared and the padding reset
MapClick(event) ==
    /\ Interactive
    /\ LET k == IF event.defined THEN FindCampsiteFeature(event.features) ELSE 0
       IN  IF k # 0
           THEN /\ selectedCampsite' = SelectedFrom(event.features[k].properties)
                /\ paddingBottom' = (InnerHeight * 3) \div 10
           ELSE /\ selectedCampsite' = Null
                /\ paddingBottom' = 0
    /\ lastEvent' = [kind |-> "click", features |-> event.features,
                     defined |-> event.defined]
    /\ nevents' = nevents + 1
    /\ UNCHANGED <<calendarVars, mapboxAccessToken, filterVars, detailVars,
                   dragVars>>

\* {selectedCampsite && <div className="detail-panel" role="dialog" ...>}
DetailPanelShown == mapboxAccessToken /\ selectedCampsite # Null

\* a click on the close button of the detail panel
ClosePanel ==
    /\ Interactive
    /\ DetailPanelShown
    /\ selectedCampsite' = Null
    /\ paddingBottom' = 0
    /\ lastEvent' = [NoEvent EXCEPT !.kind = "close"]
    /\ nevents' = nevents + 1
    /\ UNCHANGED <<calendarVars, mapboxAccessToken, filterVars, detailVars,
                   dragVars>>

\* a pointer event: a MouseEvent, which has clientY and no touches, or a
\* TouchEvent, which has no clientY and whose first touch has one
MouseEvent(y) == [type |-> "mouse", y |-> y]

TouchEvent(y) == [type |-> "touch", y |-> y]

\* where the drag handle is pressed, and where the pointer moves to: the top
\* edge of the window, near it, the handle's place, near the bottom edge
HandleYs == {InnerHeight - (InnerHeight * 3) \div 10}

PointerYs == {0, 50, InnerHeight - (InnerHeight * 3) \div 10, InnerHeight - 10}

\* e.clientY || e.touches?.[0].clientY: a clientY of 0 is falsy, and a
\* MouseEvent has no touches, so the value is then undefined
ClientY(e) ==
    IF e.type = "mouse"
    THEN IF e.y # 0 THEN Num(e.y) ELSE Undefined
    ELSE Num(e.y)

\* a value as an operand of - or +: undefined counts as NaN
ToNumber(x) == IF x = Undefined THEN NaN ELSE x

\* a - b and a + b of JavaScript numbers
Subtract(a, b) ==
    IF ToNumber(a).nan \/ ToNumber(b).nan THEN NaN
    ELSE Num(ToNumber(a).v - ToNumber(b).v)

Add(a, b) ==
    IF ToNumber(a).nan \/ ToNumber(b).nan THEN NaN
    ELSE Num(ToNumber(a).v + ToNumber(b).v)

\* Math.max(100, Math.min(window.innerHeight * 0.8, h)): NaN when h is NaN
ClampHeight(h) ==
    IF h.nan THEN NaN
    ELSE LET top == (InnerHeight * 8) \div 10
             low == IF h.v < top THEN h.v ELSE top
         IN  Num(IF low > 100 THEN low ELSE 100)

\* handleDragStart(e), from onMouseDown or onTouchStart of the drag handle
\* of the panel
handleDragStart(e) ==
    /\ Interactive
    /\ DetailPanelShown
    /\ isDragging' = TRUE
    /\ startY' = ClientY(e)
    /\ startHeight' = panelHeight
    /\ dragEvent' = "start"
    /\ nevents' = nevents + 1
    /\ UNCHANGED <<calendarVars, mapboxAccessToken, filterVars, selectionVars,
                   detailVars, panelHeight>>

\* handleDragMove(e), the mousemove and touchmove listener the window has
\* while a campsite is selected
handleDragMove(e) ==
    /\ Interactive
    /\ DetailPanelShown
    /\ IF ~isDragging
       THEN UNCHANGED panelHeight
       ELSE panelHeight' =
                ClampHeight(Add(startHeight, Subtract(startY, ClientY(e))))
    /\ dragEvent' = "move"
    /\ nevents' = nevents + 1
    /\ UNCHANGED <<calendarVars, mapboxAccessToken, filterVars, selectionVars,
                   detailVars, isDragging, startY, startHeight>>

\* handleDragEnd(), the mouseup and touchend listener the window has while a
\* campsite is selected
handleDragEnd ==
    /\ Interactive
    /\ DetailPanelShown
    /\ isDragging' = FALSE
    /\ dragEvent' = "end"
    /\ nevents' = nevents + 1
    /\ UNCHANGED <<calendarVars, mapboxAccessToken, filterVars, selectionVars,
                   detailVars, panelHeight, startY, startHeight>>

\* App renders AppContent when the token is set and the error message when
\* it is not
InitApp ==
    /\ now = TestToday * TicksPerDay
    /\ windows = [i \in WinIds |-> ScenarioWindow]
    /\ ret = NoCalls
    /\ ncalls = 0
    /\ site = TestCampsite
    /\ calendarUrl = NoUrl
    /\ lastIcs = NoIcs
    /\ objectUrls = {}
    /\ bodyLinks = {}
    /\ nextObjectUrl = 0
    /\ FormatIdle
    /\ running = NotRunning
    /\ (AppMounted \/ AppNotMounted)

NextApp ==
    \/ \E k \in 1..Len(AgencyKeys) : ToggleAgency(k)
    \/ ToggleReservable
    \/ ToggleYearRound
    \/ \E event \in ClickEvents : MapClick(event)
    \/ ClosePanel
    \/ \E y \in HandleYs : handleDragStart(MouseEvent(y))
    \/ \E y \in HandleYs : handleDragStart(TouchEvent(y))
    \/ \E y \in PointerYs : handleDragMove(MouseEvent(y))
    \/ \E y \in PointerYs : handleDragMove(TouchEvent(y))
    \/ handleDragEnd

SpecApp == InitApp /\ [][NextApp]_vars

-----------------------------------------------------------------------------
(* The features AppContent passes on for display                             *)

\* a campsite of the data with a season and a year-round window
Kalaloch ==
    Campsite("Kalaloch", "nps", TRUE,
             <<Window(Str(MMDD(5, 15)), Str(MMDD(9, 15)), NumberValue(180)),
               Window(Str(MMDD(1, 1)), Str(MMDD(12, 31)), NumberValue(0))>>,
             FALSE)

\* a campsite of the data without availability_windows
DispersedCamp ==
    [Campsite("Dispersed Camp", "usfs", FALSE, <<>>, FALSE)
        EXCEPT !.availability_windows = Undefined]

\* campsiteData.features, by their properties: the imported JSON, in which
\* arrays are arrays
CampsiteData ==
    <<SelectedFrom(Fishtrap), DeceptionPass, Kalaloch, DispersedCamp>>

\* variant: a campsite without availability_windows counts as year-round
isYearRound_MissingCounts(p) ==
    \/ p.availability_windows = Undefined
    \/ \E k \in 1..Len(p.availability_windows.v) :
           IsYearRound(p.availability_windows.v[k])

\* p.availability_windows?.some(w => w.start === '01-01' && w.end === '12-31'),
\* as a condition: undefined, which ?. yields without the array, is false
isYearRound(p) ==
    /\ p.availability_windows # Undefined
    /\ \E k \in 1..Len(p.availability_windows.v) :
           IsYearRound(p.availability_windows.v[k])

\* the callback of campsiteData.features.filter
KeepFeature(p) ==
    IF ~Includes(activeAgencies, p.agency_short) THEN FALSE
    ELSE IF reservableOnly /\ ~p.reservable THEN FALSE
    ELSE IF yearRoundOnly /\ ~isYearRound(p) THEN FALSE
    ELSE TRUE

\* the callback of .map: a copy of the feature with cluster: false
WithCluster(p) == [cluster |-> FALSE, properties |-> p]

\* the features that pass the filter, from position k on
RECURSIVE FilterFrom(_)
FilterFrom(k) ==
    IF k > Len(CampsiteData) THEN <<>>
    ELSE IF KeepFeature(CampsiteData[k])
    THEN <<WithCluster(CampsiteData[k])>> \o FilterFrom(k + 1)
    ELSE FilterFrom(k + 1)

\* the memo of [activeAgencies, reservableOnly, yearRoundOnly]
filteredFeatures == FilterFrom(1)

-----------------------------------------------------------------------------
(* App with the backend's details: the click handler of the map, the picker  *)
(* of nearby campsites and the effect that fetches the details               *)

\* the properties of a campsite feature that the click handler and the
\* effect read
DetailCampsite(id, name) ==
    [kind |-> "object", id |-> id, name |-> name,
     types |-> Nested(<<"tent">>, TRUE)]

RainierBaseCamp == DetailCampsite(Str(<<"r">>), "Rainier Base Camp")

AlpineMeadowCamp == DetailCampsite(Str(<<"a">>), "Alpine Meadow Camp")

\* a feature whose properties carry no id
UnnamedCamp == DetailCampsite(Undefined, "Unnamed Camp")

\* what map.queryRenderedFeatures returns for the buffer around a click: no
\* campsite, one, or several
RenderedFeatures ==
    { <<>>, <<RainierBaseCamp>>, <<AlpineMeadowCamp>>, <<UnnamedCamp>>,
      <<RainierBaseCamp, AlpineMeadowCamp>>, <<AlpineMeadowCamp, UnnamedCamp>> }

\* parseFeature(f): the properties with types parsed; the coordinates, which
\* only place the dots of the picker, are left out
parseFeature(p) == [p EXCEPT !.types = ParseIfString(p.types)]

\* features.map(parseFeature)
ParseAll(features) == [k \in 1..Len(features) |-> parseFeature(features[k])]

\* variant: every build counts as a backend build
IsStandalone_Never(env) == FALSE

\* import.meta.env.VITE_STANDALONE === 'true'
IsStandalone(env) == env = "true"

\* the body res.json() yields for GET /campsite/{id}
DetailsOf(id) == [kind |-> "object", id |-> id]

\* the request fetch(`${backendUrl}/campsite/${id}`) sends
Request(n, id) == [n |-> n, id |-> id]

\* the effect of [selectedCampsite], as it runs after a handler has set
\* selectedCampsite to sel.  Every selection is a new object, so the effect
\* runs after each of them; setting null over null renders nothing and runs
\* nothing.  The effect has no cleanup: a request, once sent, is never
\* cancelled, and its callbacks are never detached.
DetailsEffect(sel) ==
    IF sel = Null
    THEN /\ campsiteDetails' = Null
         /\ UNCHANGED <<loadingDetails, fetches, nfetches>>
    ELSE IF IsStandalone(standalone)
    THEN UNCHANGED <<campsiteDetails, loadingDetails, fetches, nfetches>>
    ELSE IF ~Truthy(sel.id)
    THEN /\ loadingDetails' = FALSE
         /\ UNCHANGED <<campsiteDetails, fetches, nfetches>>
    ELSE /\ loadingDetails' = TRUE
         /\ fetches' = fetches \cup {Request(nfetches + 1, sel.id)}
         /\ nfetches' = nfetches + 1
         /\ UNCHANGED campsiteDetails

\* setSelectedCampsite(sel) followed by the effect, when the state changes
SelectAndFetch(sel) ==
    /\ selectedCampsite' = sel
    /\ IF sel = Null /\ selectedCampsite = Null
       THEN UNCHANGED <<campsiteDetails, loadingDetails, fetches, nfetches>>
       ELSE DetailsEffect(sel)

\* what the user events of this App leave alone
DetailFrame ==
    UNCHANGED <<calendarVars, mapboxAccessToken, filterVars, paddingBottom,
                standalone, renders, dragVars>>

\* what a map click finds, as the record of the event
Clicked(features) == [kind |-> "click", features |-> features, defined |-> TRUE]

\* map.on('click'): no campsite in the buffer clears selection and picker,
\* one campsite is selected, several open the picker
MapOnClick(features) ==
    /\ Interactive
    /\ IF Len(features) = 0
       THEN /\ SelectAndFetch(Null)
            /\ zoomcluster' = Null
       ELSE IF Len(features) = 1
       THEN /\ SelectAndFetch(parseFeature(features[1]))
            /\ zoomcluster' = Null
       ELSE /\ SelectAndFetch(Null)
            /\ zoomcluster' = [kind |-> "object", items |-> ParseAll(features)]
    /\ lastEvent' = Clicked(features)
    /\ nevents' = nevents + 1
    /\ DetailFrame

\* {zoomcluster && <div className="zoomcluster" ...>}
PickerShown == zoomcluster # Null

\* {loadingDetails ? <div className="loading-indicator"> ...} inside the panel
LoadingIndicatorShown == selectedCampsite # Null /\ loadingDetails

\* a click on item k of the picker
PickItem(k) ==
    /\ Interactive
    /\ PickerShown
    /\ k \in 1..Len(zoomcluster.items)
    /\ SelectAndFetch(zoomcluster.items[k])
    /\ zoomcluster' = Null
    /\ lastEvent' = [NoEvent EXCEPT !.kind = "pick"]
    /\ nevents' = nevents + 1
    /\ DetailFrame

\* a click on the picker outside its items
DismissPicker ==
    /\ Interactive
    /\ PickerShown
    /\ zoomcluster' = Null
    /\ lastEvent' = [NoEvent EXCEPT !.kind = "dismiss"]
    /\ nevents' = nevents + 1
    /\ UNCHANGED <<selectedCampsite, campsiteDetails, loadingDetails, fetches,
                   nfetches>>
    /\ DetailFrame

\* a click on the close button of the panel
CloseDetailPanel ==
    /\ Interactive
    /\ selectedCampsite # Null
    /\ SelectAndFetch(Null)
    /\ lastEvent' = [NoEvent EXCEPT !.kind = "close"]
    /\ nevents' = nevents + 1
    /\ UNCHANGED zoomcluster
    /\ DetailFrame

\* what the settling of a request leaves alone
SettledFrame ==
    UNCHANGED <<calendarVars, mapboxAccessToken, filterVars, selectionVars,
                nevents, standalone, zoomcluster, nfetches, renders, dragVars>>

\* the response of request f arrives with res.ok and a body that parses
FetchSucceeds(f) ==
    /\ f \in fetches
    /\ campsiteDetails' = DetailsOf(f.id)
    /\ loadingDetails' = FALSE
    /\ fetches' = fetches \ {f}
    /\ SettledFrame

\* request f fails, its response is not ok, or its body does not parse
FetchFails(f) ==
    /\ f \in fetches
    /\ loadingDetails' = FALSE
    /\ fetches' = fetches \ {f}
    /\ UNCHANGED campsiteDetails
    /\ SettledFrame

\* the build's mode: VITE_STANDALONE set to 'true' or not set
StandaloneValues == {"true", "undefined"}

InitDetail ==
    /\ now = TestToday * TicksPerDay
    /\ windows = [i \in WinIds |-> ScenarioWindow]
    /\ ret = NoCalls
    /\ ncalls = 0
    /\ site = TestCampsite
    /\ calendarUrl = NoUrl
    /\ lastIcs = NoIcs
    /\ objectUrls = {}
    /\ bodyLinks = {}
    /\ nextObjectUrl = 0
    /\ FormatIdle
    /\ running = NotRunning
    /\ mapboxAccessToken = TRUE
    /\ selectedCampsite = Null
    /\ activeAgencies = InitialAgencies
    /\ reservableOnly = FALSE
    /\ yearRoundOnly = FALSE
    /\ paddingBottom = 0
    /\ nevents = 0
    /\ lastEvent = NoEvent
    /\ standalone \in StandaloneValues
    /\ DetailIdle
    /\ DragIdle

NextDetail ==
    \/ \E features \in RenderedFeatures : MapOnClick(features)
    \/ \E k \in 1..2 : PickItem(k)
    \/ DismissPicker
    \/ CloseDetailPanel
    \/ \E f \in fetches : FetchSucceeds(f)
    \/ \E f \in fetches : FetchFails(f)

SpecDetail == InitDetail /\ [][NextDetail]_vars

-----------------------------------------------------------------------------
(* AppContent with the picker drawn from a snapshot of the map: the click    *)
(* handler registers a render callback that opens the picker later           *)

\* what the handlers of this AppContent leave alone; it has no effect that
\* fetches
ClusterFrame ==
    UNCHANGED <<calendarVars, mapboxAccessToken, filterVars, paddingBottom,
                standalone, campsiteDetails, loadingDetails, fetches,
                nfetches, dragVars>>

\* handleMapClick(event): no campsite in the buffer clears selection and
\* picker, one campsite is selected; with several the selection is cleared
\* and a callback for the next render of the map is registered, which will
\* open the picker on them
handleMapClick(features) ==
    /\ Interactive
    /\ IF Len(features) = 0
       THEN /\ selectedCampsite' = Null
            /\ zoomcluster' = Null
            /\ UNCHANGED renders
       ELSE IF Len(features) = 1
       THEN /\ selectedCampsite' = parseFeature(features[1])
            /\ zoomcluster' = Null
            /\ UNCHANGED renders
       ELSE /\ selectedCampsite' = Null
            /\ renders' = Append(renders, ParseAll(features))
            /\ UNCHANGED zoomcluster
    /\ lastEvent' = Clicked(features)
    /\ nevents' = nevents + 1
    /\ ClusterFrame

\* the map fires 'render': every callback registered with map.once runs, in
\* the order of registration, each calling setZoomcluster with its items
OnceRender ==
    /\ renders # <<>>
    /\ zoomcluster' = [kind |-> "object", items |-> renders[Len(renders)]]
    /\ renders' = <<>>
    /\ UNCHANGED <<selectionVars, nevents>>
    /\ ClusterFrame

\* a click on item k of the picker
ChooseItem(k) ==
    /\ Interactive
    /\ PickerShown
    /\ k \in 1..Len(zoomcluster.items)
    /\ selectedCampsite' = zoomcluster.items[k]
    /\ zoomcluster' = Null
    /\ lastEvent' = [NoEvent EXCEPT !.kind = "pick"]
    /\ nevents' = nevents + 1
    /\ UNCHANGED renders
    /\ ClusterFrame

\* a click on the picker outside its items
DismissZoomcluster ==
    /\ Interactive
    /\ PickerShown
    /\ zoomcluster' = Null
    /\ lastEvent' = [NoEvent EXCEPT !.kind = "dismiss"]
    /\ nevents' = nevents + 1
    /\ UNCHANGED <<selectedCampsite, renders>>
    /\ ClusterFrame

\* a click on the close button of the panel
ClosePanelButton ==
    /\ Interactive
    /\ selectedCampsite # Null
    /\ selectedCampsite' = Null
    /\ lastEvent' = [NoEvent EXCEPT !.kind = "close"]
    /\ nevents' = nevents + 1
    /\ UNCHANGED <<zoomcluster, renders>>
    /\ ClusterFrame

InitCluster ==
    /\ InitDetail
    /\ standalone = "true"

NextCluster ==
    \/ \E features \in RenderedFeatures : handleMapClick(features)
    \/ OnceRender
    \/ \E k \in 1..2 : ChooseItem(k)
    \/ DismissZoomcluster
    \/ ClosePanelButton

SpecCluster == InitCluster /\ [][NextCluster]_vars

-----------------------------------------------------------------------------
(* Reference calendar arithmetic for the properties: day numbers counted     *)
(* directly, the window text read by position                                *)

\* st is the text of a month-day pair "MM-DD" of the calendar
WellFormed(st) ==
    /\ st.kind = "string"
    /\ Len(st.s) = 5
    /\ st.s[3] = "-"
    /\ \A k \in {1, 2, 4, 5} : IsDigit(st.s[k])
    /\ LET m == 10 * DigitValue(st.s[1]) + DigitValue(st.s[2])
           d == 10 * DigitValue(st.s[4]) + DigitValue(st.s[5])
       IN  m \in 1..12 /\ d \in 1..MaxDayOfMonth(m)

RefMonth(w) == 10 * DigitValue(w.start.s[1]) + DigitValue(w.start.s[2])

RefDay(w) == 10 * DigitValue(w.start.s[4]) + DigitValue(w.start.s[5])

RefAdvance(w) ==
    IF w.booking_advance_days.kind = "number" THEN w.booking_advance_days.n ELSE 0

\* day number of seasonStart(y) - advance days
RefCandidate(w, y) == MakeDay(y, RefMonth(w) - 1, RefDay(w)) - RefAdvance(w)

\* the calendar day of the clock reading of the last call on window i
TodayDay(i) == ret[i].at \div TicksPerDay

TodayYear(i) == YearFromDay(TodayDay(i))

\* the last call on window i returned a value and the window is a valid one
Returned(i) == ret[i].out.kind = "return" /\ WellFormed(windows[i].start)

MidnightOf(day) == DateOf(day * TicksPerDay)

-----------------------------------------------------------------------------
(* Properties of resolveBookingOpenDate *)

\* C1: when the current-year candidate seasonStart(today.year) - advance is
\* on or after today, the call returns exactly that candidate, from the first
\* iteration of the scan, and no candidate of a later year.
C1_SameYearCandidate ==
    \A i \in WinIds :
        (Returned(i) /\ RefCandidate(windows[i], TodayYear(i)) >= TodayDay(i))
            => /\ ret[i].out.date = MidnightOf(RefCandidate(windows[i], TodayYear(i)))
               /\ ret[i].out.exit = "loop"
               /\ ret[i].out.year = TodayYear(i)

\* test 'returns this year when booking-open date is in the future', for a
\* 30-day advance on the season of November 1, read on a day of 2026 before
\* October 2
C1_Witness ==
    /\ Returned("a")
    /\ windows["a"].start.s = MMDD(11, 1)
    /\ windows["a"].booking_advance_days = NumberValue(30)
    /\ TodayDay("a") = MakeDay(2026, 5, 15)
    /\ ret["a"].out.date = MidnightOf(MakeDay(2026, 9, 2))

\* C2: with 0 <= advance <= 366 one of the candidates of today.year and
\* today.year + 1 is on or after today: the call never leaves through the
\* fallback and never returns a date before today.
C2_NeverBeforeToday ==
    \A i \in WinIds :
        (Returned(i) /\ RefAdvance(windows[i]) \in 0..366)
            => /\ ret[i].out.exit # "fallback"
               /\ ret[i].out.date.valid
               /\ ret[i].out.date.t >= TodayDay(i) * TicksPerDay

\* C3: when the current-year candidate is strictly before today, the call
\* returns exactly seasonStart(today.year + 1) - advance, through the loop or
\* through the fallback.
C3_NextYearCandidate ==
    \A i \in WinIds :
        (Returned(i) /\ RefCandidate(windows[i], TodayYear(i)) < TodayDay(i))
            => /\ ret[i].out.date
                    = MidnightOf(RefCandidate(windows[i], TodayYear(i) + 1))
               /\ ret[i].out.year = TodayYear(i) + 1

\* both ways out: a next-year candidate found by the loop, and one returned
\* by the fallback
C3_Witness ==
    /\ Returned("a")
    /\ RefCandidate(windows["a"], TodayYear("a")) < TodayDay("a")
    /\ ret["a"].out.exit = "fallback"
    /\ ret["a"].out.date = MidnightOf(RefCandidate(windows["a"], TodayYear("a") + 1))

\* C4: the comparison with today is made on whole days: whatever the time of
\* day of the clock reading on day D, the call returns what it returns for
\* midnight of D (the current-year candidate when it is on or after D, the
\* next year's otherwise), and a candidate that falls on D is returned as it
\* is.
C4_WholeDay ==
    \A i \in WinIds :
        Returned(i)
            => LET c0 == RefCandidate(windows[i], TodayYear(i))
                   c1 == RefCandidate(windows[i], TodayYear(i) + 1)
               IN  /\ ret[i].out.date = MidnightOf(IF c0 >= TodayDay(i) THEN c0 ELSE c1)
                   /\ (c0 = TodayDay(i) => ret[i].out.date = MidnightOf(TodayDay(i)))

\* a clock read after midnight on the very day the booking opens
C4_Witness ==
    /\ Returned("a")
    /\ ret["a"].at % TicksPerDay > 0
    /\ RefAdvance(windows["a"]) > 0
    /\ RefCandidate(windows["a"], TodayYear("a")) = TodayDay("a")
    /\ ret["a"].out.date = MidnightOf(TodayDay("a"))

\* the advance is 0, null or absent
NoAdvance(w) ==
    \/ w.booking_advance_days.kind \in {"null", "undefined"}
    \/ w.booking_advance_days = NumberValue(0)

\* the date returned for window i is month m, day d of year y
ReturnedOn(i, y, m, d) ==
    /\ ret[i].out.date.valid
    /\ TimeWithinDay(ret[i].out.date.t) = 0
    /\ YearFromDay(Day(ret[i].out.date.t)) = y
    /\ MonthFromDay(Day(ret[i].out.date.t)) + 1 = m
    /\ DateFromDay(Day(ret[i].out.date.t)) = d

\* the year of the season start returned with no advance
SeasonYear(i) ==
    IF MakeDay(TodayYear(i), RefMonth(windows[i]) - 1, RefDay(windows[i])) >= TodayDay(i)
    THEN TodayYear(i)
    ELSE TodayYear(i) + 1

\* C5 as stated: with an advance of 0, null or absent the date returned has
\* the month and the day of the window's start, in today.year when that date
\* is on or after today and in today.year + 1 otherwise.
C5_StartMonthDay ==
    \A i \in WinIds :
        (Returned(i) /\ NoAdvance(windows[i]))
            => ReturnedOn(i, SeasonYear(i), RefMonth(windows[i]), RefDay(windows[i]))

\* C5 (amended): with an advance of 0, null or absent the date returned is
\* the season start new Date(y, startMonth - 1, startDay), y being today.year
\* when that date is on or after today and today.year + 1 otherwise; it has
\* the month and the day of the window's start, except for the start "02-29"
\* in a year y that is no leap year, where it is March 1 of y.
C5_SeasonStart ==
    \A i \in WinIds :
        (Returned(i) /\ NoAdvance(windows[i]))
            => IF RefMonth(windows[i]) = 2 /\ RefDay(windows[i]) = 29
                  /\ ~InLeapYear(SeasonYear(i))
               THEN ReturnedOn(i, SeasonYear(i), 3, 1)
               ELSE ReturnedOn(i, SeasonYear(i), RefMonth(windows[i]), RefDay(windows[i]))

\* a null advance resolved to the season start of the following year
C5_Witness ==
    /\ Returned("a")
    /\ windows["a"].booking_advance_days = Null
    /\ windows["a"].start.s = MMDD(8, 1)
    /\ TodayDay("a") = MakeDay(2026, 7, 2)
    /\ ReturnedOn("a", 2027, 8, 1)

\* C7: for a fixed today the call is deterministic and leaves its argument
\* alone: a call on a window that was already resolved on the same calendar
\* day returns the same outcome as before, whatever calls on other windows
\* were made in between, and no call changes a window object or the outcome
\* recorded for another window.
C7_Deterministic ==
    [][ncalls' # ncalls =>
          /\ windows' = windows
          /\ \A i \in WinIds :
                 \/ ret'[i] = ret[i]
                 \/ /\ \A j \in WinIds \ {i} : ret'[j] = ret[j]
                    /\ (ret[i].n > 0 /\ Day(ret[i].at) = Day(ret'[i].at))
                           => ret'[i].out = ret[i].out]_vars

\* window a resolved to today at two different times of the same day, with a
\* call on window b in between or around
C7_Witness ==
    /\ ret["a"].n >= 2
    /\ ret["b"].n >= 1
    /\ windows["a"] # windows["b"]
    /\ ret["a"].at % TicksPerDay > 0
    /\ ret["a"].out.kind = "return"
    /\ ret["a"].out.date = MidnightOf(TodayDay("a"))
    /\ ret["b"].out.kind = "return"

\* C8: a start that does not parse as a month-day pair of two integers makes
\* the call raise an error: it returns a value only for a well-formed start.
C8_FailFast ==
    \A i \in WinIds :
        ret[i].out.kind = "return" => WellFormed(windows[i].start)

-----------------------------------------------------------------------------
(* Reading the exported texts back *)

\* first position at which pat occurs in s, 0 when it does not
IndexOf(s, pat) ==
    LET hits == {k \in 1..(Len(s) - Len(pat) + 1) :
                    s[k] = pat[1] /\ SubSeq(s, k, k + Len(pat) - 1) = pat}
    IN  IF hits = {} THEN 0 ELSE CHOOSE k \in hits : \A h \in hits : k <= h

\* the text between the first occurrence of `key` and the next occurrence of
\* `stop` (or the end of s)
Between(s, key, stop) ==
    LET k == IndexOf(s, key)
        rest == SubSeq(s, k + Len(key), Len(s))
        e == IndexOf(rest, stop)
    IN  IF k = 0 THEN <<>>
        ELSE IF e = 0 THEN rest ELSE SubSeq(rest, 1, e - 1)

\* the value of a query parameter of the calendar URL
UrlParam(url, key) == Between(url, <<"&">> \o key \o <<"=">>, <<"&">>)

\* the value of a property line of the iCalendar document
IcsProperty(content, name) ==
    IF SubSeq(content, 1, Len(name)) = name
    THEN Between(content, name, <<"\r", "\n">>)
    ELSE Between(content, <<"\r", "\n">> \o name, <<"\r", "\n">>)

EncodedChars ==
    {" ", ",", ":", "/", "&", "=", "#", "?", "%", "\\", "\n", "\r",
     "<U+2014>", "<U+2013>"}

\* position k of the percent-encoded text s begins a character: a plain
\* character outside every %XX triple, or a triple that is no UTF-8
\* continuation byte (%80..%BF)
BeginsChar(s, k) ==
    IF s[k] = "%"
    THEN s[k + 1] \notin {"8", "9", "A", "B"}
    ELSE (k < 2 \/ s[k - 1] # "%") /\ (k < 3 \/ s[k - 2] # "%")

\* the character whose encoding begins at position k of s
CharAt(s, k) ==
    IF s[k] = "%"
    THEN CHOOSE x \in EncodedChars :
             SubSeq(s, k, k + Len(PercentCode(x)) - 1) = PercentCode(x)
    ELSE s[k]

RECURSIVE RefDecodeRange(_, _, _)
\* the characters whose encodings begin in s[lo..hi]
RefDecodeRange(s, lo, hi) ==
    IF lo > hi THEN <<>>
    ELSE IF lo = hi THEN (IF BeginsChar(s, lo) THEN <<CharAt(s, lo)>> ELSE <<>>)
    ELSE RefDecodeRange(s, lo, (lo + hi) \div 2)
             \o RefDecodeRange(s, (lo + hi) \div 2 + 1, hi)

\* the text whose percent-encoding is s
RefDecode(s) == RefDecodeRange(s, 1, Len(s))

RECURSIVE RefEscaped(_)
\* s with a backslash put before every comma, comma by comma
RefEscaped(s) ==
    LET k == IndexOf(s, <<",">>)
    IN  IF k = 0 THEN s
        ELSE SubSeq(s, 1, k - 1) \o <<"\\", ",">>
                 \o RefEscaped(SubSeq(s, k + 1, Len(s)))

\* the first line of a text
FirstLine(s) ==
    IF IndexOf(s, <<"\n">>) = 0 THEN s ELSE SubSeq(s, 1, IndexOf(s, <<"\n">>) - 1)

\* the year, month and day an 8-digit date text names
DateTextOk(txt) == Len(txt) = 8 /\ \A k \in 1..8 : IsDigit(txt[k])

YearOfText(txt) == DecimalValue(SubSeq(txt, 1, 4))

MonthOfText(txt) == DecimalValue(SubSeq(txt, 5, 6))

DayOfText(txt) == DecimalValue(SubSeq(txt, 7, 8))

\* the date text `next` names the calendar day after the one `txt` names
IsFollowingDay(txt, next) ==
    LET y == YearOfText(txt)
        m == MonthOfText(txt)
        d == DayOfText(txt)
    IN  /\ DateTextOk(txt) /\ DateTextOk(next)
        /\ m \in 1..12 /\ d \in 1..DaysInMonth(y, m)
        /\ IF d < DaysInMonth(y, m)
           THEN YearOfText(next) = y /\ MonthOfText(next) = m /\ DayOfText(next) = d + 1
           ELSE IF m < 12
           THEN YearOfText(next) = y /\ MonthOfText(next) = m + 1 /\ DayOfText(next) = 1
           ELSE YearOfText(next) = y + 1 /\ MonthOfText(next) = 1 /\ DayOfText(next) = 1

\* the day number the reference resolution gives for window w on the day of
\* the clock reading `clock`
RefResolvedDay(w, clock) ==
    LET today == clock \div TicksPerDay
        c0 == RefCandidate(w, YearFromDay(today))
        c1 == RefCandidate(w, YearFromDay(today) + 1)
    IN  IF c0 >= today THEN c0 ELSE c1

\* the date text txt names the day with day number `day`
NamesDay(txt, day) ==
    /\ DateTextOk(txt)
    /\ MonthOfText(txt) \in 1..12
    /\ MakeDay(YearOfText(txt), MonthOfText(txt) - 1, DayOfText(txt)) = day
    /\ DayOfText(txt) \in 1..DaysInMonth(YearOfText(txt), MonthOfText(txt))

UrlDates == UrlParam(calendarUrl.url, <<"d", "a", "t", "e", "s">>)

IcsStartText ==
    IcsProperty(lastIcs.content,
                <<"D", "T", "S", "T", "A", "R", "T", ";", "V", "A", "L", "U", "E",
                  "=", "D", "A", "T", "E", ":">>)

IcsEndText ==
    IcsProperty(lastIcs.content,
                <<"D", "T", "E", "N", "D", ";", "V", "A", "L", "U", "E", "=", "D",
                  "A", "T", "E", ":">>)

\* a calendar URL was built for a valid window
UrlBuilt == calendarUrl.kind = "return" /\ WellFormed(windows["a"].start)

\* an iCalendar document was built for a valid window (whether or not the
\* click that followed threw)
IcsBuilt == lastIcs.href # 0 /\ WellFormed(windows["a"].start)

-----------------------------------------------------------------------------
(* Properties of the exports *)

\* C6: in the dates= parameter of the calendar URL and in DTSTART/DTEND of the
\* iCalendar document the start is the resolved booking-open date itself and
\* the end is the calendar day that follows it, across the end of a month and
\* of the year.
C6_EndIsFollowingDay ==
    /\ UrlBuilt =>
           LET dates == UrlDates
               start == SubSeq(dates, 1, 8)
           IN  /\ Len(dates) = 17 /\ dates[9] = "/"
               /\ NamesDay(start, RefResolvedDay(windows["a"], calendarUrl.at))
               /\ IsFollowingDay(start, SubSeq(dates, 10, 17))
    /\ IcsBuilt =>
           LET start == IcsStartText
           IN  /\ NamesDay(start, RefResolvedDay(windows["a"], lastIcs.at))
               /\ IsFollowingDay(start, IcsEndText)

\* both exports of a booking that opens on December 31, 2026
C6_Witness ==
    /\ UrlBuilt /\ IcsBuilt
    /\ UrlDates = ToDecimal(20261231) \o <<"/">> \o ToDecimal(20270101)
    /\ IcsStartText = ToDecimal(20261231)
    /\ IcsEndText = ToDecimal(20270101)

\* C9: once generateWindowICS has ended, whether link.click() returned or
\* threw, the object URL it created is revoked and its link is detached from
\* the document.
C9_AlwaysReleased ==
    lastIcs.href # 0
        => lastIcs.href \notin objectUrls /\ lastIcs.href \notin bodyLinks

UrlTitle == RefDecode(UrlParam(calendarUrl.url, <<"t", "e", "x", "t">>))

UrlDetails ==
    RefDecode(UrlParam(calendarUrl.url, <<"d", "e", "t", "a", "i", "l", "s">>))

IcsSummaryText ==
    IcsProperty(lastIcs.content, <<"S", "U", "M", "M", "A", "R", "Y", ":">>)

IcsDescriptionText ==
    IcsProperty(lastIcs.content,
                <<"D", "E", "S", "C", "R", "I", "P", "T", "I", "O", "N", ":">>)

\* C10 as stated: SUMMARY is the title of buildCalendarUrl with its commas
\* escaped, and DESCRIPTION is the whole details body of buildCalendarUrl,
\* the Info line included, with its commas escaped.
C10_SameDetails ==
    (UrlBuilt /\ IcsBuilt)
        => /\ IcsSummaryText = RefEscaped(UrlTitle)
           /\ IcsDescriptionText = RefEscaped(UrlDetails)

\* C10 (amended): SUMMARY is the title of buildCalendarUrl with its commas
\* escaped, and DESCRIPTION is the first line of the details body of
\* buildCalendarUrl (the season sentence, without the Info line) with its
\* commas escaped; without an official_url that line is the whole body.
C10_SameSentence ==
    (UrlBuilt /\ IcsBuilt)
        => LET details == UrlDetails
           IN  /\ IcsSummaryText = RefEscaped(UrlTitle)
               /\ IcsDescriptionText = RefEscaped(FirstLine(details))
               /\ ~Truthy(site.official_url) => FirstLine(details) = details

\* both exports for a campsite with a comma in its name and an official_url
C10_Witness ==
    /\ UrlBuilt /\ IcsBuilt
    /\ Truthy(site.official_url)
    /\ ~HasAdvance(windows["a"])
    /\ \E k \in 1..Len(site.name.s) : site.name.s[k] = ","
    /\ IndexOf(IcsDescriptionText, <<"\\", ",">>) > 0
    /\ IndexOf(UrlDetails, <<"\n">>) > 0

-----------------------------------------------------------------------------
(* Properties of the exported texts *)

\* the two-character line terminator CR LF
LineBreak == <<"\r", "\n">>

RECURSIVE LinesOf(_, _)
\* the pieces of s between the occurrences of sep
LinesOf(s, sep) ==
    LET k == IndexOf(s, sep)
    IN  IF k = 0 THEN <<s>>
        ELSE <<SubSeq(s, 1, k - 1)>> \o LinesOf(SubSeq(s, k + Len(sep), Len(s)), sep)

StartsWith(s, prefix) == SubSeq(s, 1, Len(prefix)) = prefix

\* official_url is null, undefined or the empty string
Absent(v) == v \in {Null, Undefined, Str(<<>>)}

InfoPrefix == <<"I", "n", "f", "o", ":">>

UrlPrefix == <<"U", "R", "L", ":">>

\* C11: when campsite.official_url is null, undefined or empty no line of the
\* details of the calendar URL begins with 'Info:' and no line of the iCalendar
\* document begins with 'URL:'; when it is present the details have the line
\* 'Info: <official_url>' and the document has the line 'URL:<official_url>',
\* the URL written character for character.
C11_InfoAndUrlLine ==
    /\ UrlBuilt =>
           LET lines == LinesOf(UrlDetails, <<"\n">>)
           IN  IF Absent(site.official_url)
               THEN \A k \in 1..Len(lines) : ~StartsWith(lines[k], InfoPrefix)
               ELSE \E k \in 1..Len(lines) :
                        lines[k] = InfoPrefix \o <<" ">> \o site.official_url.s
    /\ IcsBuilt =>
           LET lines == LinesOf(lastIcs.content, LineBreak)
           IN  IF Absent(site.official_url)
               THEN \A k \in 1..Len(lines) : ~StartsWith(lines[k], UrlPrefix)
               ELSE \E k \in 1..Len(lines) :
                        lines[k] = UrlPrefix \o site.official_url.s

\* both exports of a campsite whose official_url holds '?', '=', '&' and '#'
C11_Witness ==
    /\ UrlBuilt /\ IcsBuilt
    /\ site.official_url.kind = "string"
    /\ IndexOf(site.official_url.s, <<"&">>) > 0
    /\ IndexOf(UrlDetails, <<"\n">> \o InfoPrefix \o <<" ">> \o site.official_url.s) > 0
    /\ IndexOf(lastIcs.content, LineBreak \o UrlPrefix \o site.official_url.s \o LineBreak) > 0

\* 'Book <name> (reservations open)'
BookTitle(name) ==
    <<"B", "o", "o", "k", " ">> \o name
        \o <<" ", "(", "r", "e", "s", "e", "r", "v", "a", "t", "i", "o", "n", "s", " ", "o", "p", "e", "n", ")">>

\* '<name> season opens'
SeasonOpensTitle(name) == name \o <<" ", "s", "e", "a", "s", "o", "n", " ", "o", "p", "e", "n", "s">>

\* booking_advance_days is a number above 0
PositiveAdvance(w) ==
    w.booking_advance_days \notin {Null, Undefined, NumberValue(0)}

\* the date text names the season start of the clock's year or the next, less
\* `days` days
NamesSeasonStartLess(txt, w, clock, days) ==
    \E y \in {YearFromDay(clock \div TicksPerDay), YearFromDay(clock \div TicksPerDay) + 1} :
        NamesDay(txt, MakeDay(y, RefMonth(w) - 1, RefDay(w)) - days)

\* C12: in the calendar URL and in the iCalendar document the title is 'Book
\* <name> (reservations open)' exactly when booking_advance_days is above 0
\* and '<name> season opens' when it is 0, null or absent; the exported start
\* date is the season start less the advance under the first title and the
\* season start itself under the second.
C12_TitleVariant ==
    LET w == windows["a"]
        title == IF PositiveAdvance(w) THEN BookTitle(site.name.s)
                 ELSE SeasonOpensTitle(site.name.s)
        days == IF PositiveAdvance(w) THEN w.booking_advance_days.n ELSE 0
    IN  /\ UrlBuilt =>
               /\ UrlTitle = title
               /\ NamesSeasonStartLess(SubSeq(UrlDates, 1, 8), w, calendarUrl.at, days)
        /\ IcsBuilt =>
               /\ IcsSummaryText = RefEscaped(title)
               /\ NamesSeasonStartLess(IcsStartText, w, lastIcs.at, days)

\* both exports of a window whose advance is 0, for a name with a comma
C12_Witness ==
    /\ UrlBuilt /\ IcsBuilt
    /\ windows["a"].booking_advance_days = NumberValue(0)
    /\ IndexOf(site.name.s, <<",">>) > 0
    /\ UrlTitle = SeasonOpensTitle(site.name.s)
    /\ IcsSummaryText = RefEscaped(SeasonOpensTitle(site.name.s))

RenderTemplate ==
    <<"h", "t", "t", "p", "s", ":", "/", "/", "w", "w", "w", ".", "g", "o", "o", "g", "l", "e", ".", "c", "o", "m">>
        \o <<"/", "c", "a", "l", "e", "n", "d", "a", "r", "/", "r", "e", "n", "d", "e", "r", "?", "a", "c", "t", "i", "o", "n", "=", "T", "E", "M", "P", "L", "A", "T", "E">>

\* the name of a 'name=value' query parameter, and its value
ParamKey(p) == SubSeq(p, 1, IndexOf(p, <<"=">>) - 1)

ParamValue(p) == SubSeq(p, IndexOf(p, <<"=">>) + 1, Len(p))

\* the query parameters of the URL: what follows the first '?', up to a '#',
\* cut at every '&'
QueryParams(url) ==
    LinesOf(Between(url, <<"?">>, <<"#">>), <<"&">>)

\* every character of s is one that encodeURIComponent writes
IsEncoded(s) == \A k \in 1..Len(s) : s[k] \in UnreservedChars \cup {"%"}

\* C13: whatever the name and the official_url hold ('&', '=', '#', '?',
\* spaces), the string buildCalendarUrl returns begins with
\* https://www.google.com/calendar/render?action=TEMPLATE and has the four
\* query parameters action, text, dates, details, in that order and no
\* other; dates is <YYYYMMDD of bookingOpen>/<YYYYMMDD of nextDay>, text and
\* details are percent-encoded and text decodes to the title.
C13_FourParameters ==
    calendarUrl.kind = "return" =>
        LET url == calendarUrl.url
            params == QueryParams(url)
            w == windows["a"]
        IN  /\ StartsWith(url, RenderTemplate)
            /\ IndexOf(url, <<"#">>) = 0
            /\ Len(params) = 4
            /\ \A k \in 1..Len(params) : IndexOf(params[k], <<"=">>) > 0
            /\ <<ParamKey(params[1]), ParamKey(params[2]), ParamKey(params[3]),
                  ParamKey(params[4])>>
                   = <<<<"a", "c", "t", "i", "o", "n">>, <<"t", "e", "x", "t">>,
                       <<"d", "a", "t", "e", "s">>, <<"d", "e", "t", "a", "i", "l", "s">>>>
            /\ ParamValue(params[1]) = <<"T", "E", "M", "P", "L", "A", "T", "E">>
            /\ IsEncoded(ParamValue(params[2]))
            /\ IsEncoded(ParamValue(params[4]))
            /\ RefDecode(ParamValue(params[2]))
                   = (IF PositiveAdvance(w) THEN BookTitle(site.name.s)
                      ELSE SeasonOpensTitle(site.name.s))
            /\ WellFormed(w.start) =>
                   LET dates == ParamValue(params[3])
                   IN  /\ Len(dates) = 17 /\ dates[9] = "/"
                       /\ NamesDay(SubSeq(dates, 1, 8),
                                   RefResolvedDay(w, calendarUrl.at))
                       /\ IsFollowingDay(SubSeq(dates, 1, 8), SubSeq(dates, 10, 17))

\* a calendar URL for a name holding '&' and an official_url holding '?',
\* '=', '&' and '#'
C13_Witness ==
    /\ UrlBuilt
    /\ IndexOf(site.name.s, <<"&">>) > 0
    /\ site.official_url.kind = "string"
    /\ IndexOf(site.official_url.s, <<"#">>) > 0
    /\ IndexOf(site.official_url.s, <<"&">>) > 0
    /\ Len(QueryParams(calendarUrl.url)) = 4
    /\ IndexOf(UrlDetails, site.official_url.s) > 0

\* the lines of the document, cut at every CR LF
IcsLines == LinesOf(lastIcs.content, LineBreak)

\* the lines the document opens with, and the lines it closes with
IcsHead ==
    << <<"B", "E", "G", "I", "N", ":", "V", "C", "A", "L", "E", "N", "D", "A", "R">>,
       <<"V", "E", "R", "S", "I", "O", "N", ":", "2", ".", "0">>,
       <<"B", "E", "G", "I", "N", ":", "V", "E", "V", "E", "N", "T">> >>

IcsTail ==
    << <<"E", "N", "D", ":", "V", "E", "V", "E", "N", "T">>,
       <<"E", "N", "D", ":", "V", "C", "A", "L", "E", "N", "D", "A", "R">> >>

DtStartPrefix == <<"D", "T", "S", "T", "A", "R", "T", ";", "V", "A", "L", "U", "E", "=", "D", "A", "T", "E", ":">>

DtEndPrefix == <<"D", "T", "E", "N", "D", ";", "V", "A", "L", "U", "E", "=", "D", "A", "T", "E", ":">>

SummaryPrefix == <<"S", "U", "M", "M", "A", "R", "Y", ":">>

DescriptionPrefix == <<"D", "E", "S", "C", "R", "I", "P", "T", "I", "O", "N", ":">>

\* line k of the document is `prefix` followed by `value`
IcsLineIs(k, prefix, value) == IcsLines[k] = prefix \o value

\* C14: the document is, in this order and with nothing else, BEGIN:VCALENDAR,
\* VERSION:2.0, BEGIN:VEVENT, DTSTART;VALUE=DATE:<bookingOpen>,
\* DTEND;VALUE=DATE:<nextDay>, SUMMARY:<title>, DESCRIPTION:<description>,
\* URL:<official_url> when official_url is present and no such line when it
\* is not, END:VEVENT, END:VCALENDAR.
C14_LinesInOrder ==
    IcsBuilt =>
        LET w == windows["a"]
            lines == IcsLines
            present == ~Absent(site.official_url)
            title == IF PositiveAdvance(w) THEN BookTitle(site.name.s)
                     ELSE SeasonOpensTitle(site.name.s)
            start == SubSeq(lines[4], Len(DtStartPrefix) + 1, Len(lines[4]))
            end == SubSeq(lines[5], Len(DtEndPrefix) + 1, Len(lines[5]))
        IN  /\ Len(lines) = (IF present THEN 10 ELSE 9)
            /\ SubSeq(lines, 1, 3) = IcsHead
            /\ StartsWith(lines[4], DtStartPrefix)
            /\ NamesDay(start, RefResolvedDay(w, lastIcs.at))
            /\ StartsWith(lines[5], DtEndPrefix)
            /\ IsFollowingDay(start, end)
            /\ lines[6] = SummaryPrefix \o RefEscaped(title)
            /\ StartsWith(lines[7], DescriptionPrefix)
            /\ Len(lines[7]) > Len(DescriptionPrefix)
            /\ UrlBuilt => lines[7] = DescriptionPrefix \o RefEscaped(FirstLine(UrlDetails))
            /\ present => lines[8] = UrlPrefix \o site.official_url.s
            /\ SubSeq(lines, Len(lines) - 1, Len(lines)) = IcsTail

\* a document of nine lines, without the URL line, for an empty official_url
C14_Witness ==
    /\ IcsBuilt
    /\ site.official_url = Str(<<>>)
    /\ Len(IcsLines) = 9
    /\ IcsLines[8] = IcsTail[1]

EndsWith(s, suffix) ==
    Len(s) >= Len(suffix) /\ SubSeq(s, Len(s) - Len(suffix) + 1, Len(s)) = suffix

\* C15: the text of the document is CRLF-terminated: every line, the final
\* END:VCALENDAR included, is followed by CR LF, so the text ends with CR LF.
C15_CrlfTerminated ==
    IcsBuilt => EndsWith(lastIcs.content, IcsTail[2] \o LineBreak)

\* C16 as stated: the document has between six and eight lines, with and
\* without an official_url.
C16_SixToEightLines ==
    IcsBuilt => Len(IcsLines) \in 6..8

\* C16 (amended): the document has nine lines when official_url is absent
\* (null, undefined or empty) and ten when it is present: the seven fixed
\* lines of C14 around DTSTART, DTEND, SUMMARY, DESCRIPTION, and the URL line.
C16_NineOrTenLines ==
    IcsBuilt =>
        LET lines == IcsLines
        IN  /\ Len(lines) = (IF Absent(site.official_url) THEN 9 ELSE 10)
            /\ \A k \in 1..Len(lines) : lines[k] # <<>>

\* a document of ten lines for a present official_url
C16_Witness ==
    /\ IcsBuilt
    /\ ~Absent(site.official_url)
    /\ Len(IcsLines) = 10
    /\ StartsWith(IcsLines[8], UrlPrefix)

\* C17: whatever Date fmtDate is given, what it returns is 8 characters long,
\* every one a decimal digit: the 4-digit year, the month on 2 digits and the
\* day on 2 digits of the date's local calendar day.
C17_EightDigits ==
    fmtOut.kind = "return"
        => /\ DateTextOk(fmtOut.text)
           /\ fmtArg.valid => NamesDay(fmtOut.text, Day(fmtArg.t))

\* C18: an export operation reads the clock once, in resolveBookingOpenDate,
\* and writes both of its dates from that reading: the start is the date
\* resolved for the day of the reading and the end is the day after it, also
\* when the clock has passed midnight before the text is put together.
C18_SingleClockReading ==
    /\ running.op # "none" => running.reads = 1
    /\ UrlBuilt =>
           LET dates == UrlDates
           IN  /\ NamesDay(SubSeq(dates, 1, 8),
                           RefResolvedDay(windows["a"], calendarUrl.at))
               /\ IsFollowingDay(SubSeq(dates, 1, 8), SubSeq(dates, 10, 17))
    /\ IcsBuilt =>
           /\ NamesDay(IcsStartText, RefResolvedDay(windows["a"], lastIcs.at))
           /\ IsFollowingDay(IcsStartText, IcsEndText)

\* both exports ended after midnight of the day on which each read the clock,
\* for a window that resolves differently on the two days
C18_Witness ==
    /\ UrlBuilt /\ IcsBuilt
    /\ running.op = "none" /\ running.reads = 1
    /\ Day(running.done) > Day(running.at)
    /\ Day(now) > Day(calendarUrl.at)
    /\ Day(now) > Day(lastIcs.at)
    /\ RefResolvedDay(windows["a"], now) # RefResolvedDay(windows["a"], calendarUrl.at)
    /\ UrlDates = ToDecimal(20260615) \o <<"/">> \o ToDecimal(20260616)
    /\ IcsStartText = ToDecimal(20260615)

\* window i is the window of the scenario and was last resolved on 2026-06-15
ScenarioResolved(i) ==
    /\ ret[i].n > 0
    /\ windows[i] = ScenarioWindow
    /\ TodayDay(i) = TestToday

\* C19: on 2026-06-15 the window {start: '05-01', end: '10-31',
\* booking_advance_days: 180} resolves to 2026-11-02: the candidate of the
\* current season, 2026-05-01 less 180 days, is 2025-11-02, 225 days before
\* today, so the result is 2027-05-01 less 180 days, found by the second
\* iteration of the scan: 140 days after today, the 180 days being the 28
\* left of November, December, January, February, March, April and May 1.
C19_ScenarioResolves ==
    \A i \in WinIds :
        ScenarioResolved(i)
            => /\ ret[i].out.kind = "return"
               /\ ret[i].out.exit = "loop"
               /\ ret[i].out.year = 2027
               /\ ret[i].out.date.valid
               /\ ret[i].out.date.t = (TestToday + 15 + 31 + 31 + 30 + 31 + 2) * TicksPerDay
               /\ fmtDate(ret[i].out.date) = ToDecimal(20261102)
               /\ MakeDay(2026, 4, 1) - 180 = TestToday - (28 + 31 + 31 + 28 + 31 + 30 + 31 + 15)
               /\ MakeDay(2027, 4, 1) - 180 = Day(ret[i].out.date.t)
               /\ 28 + 31 + 31 + 28 + 31 + 30 + 1 = 180

\* the window of the scenario resolved during the day of 2026-06-15
C19_Witness ==
    /\ ScenarioResolved("a")
    /\ ret["a"].at % TicksPerDay > 0
    /\ fmtDate(ret["a"].out.date) = ToDecimal(20261102)

-----------------------------------------------------------------------------
(* Properties of AppContent *)

\* aria-pressed of the button of an agency
AgencyPressed(agency) == \E k \in 1..Len(activeAgencies) : activeAgencies[k] = agency

\* C20: when the app has mounted with a token and has handled no event, the
\* buttons of wa-state-parks, nps, usfs and blm are all pressed, the
\* Reservable and Year-round filters are off, no campsite is selected and the
\* detail panel is not shown.
C20_InitialState ==
    (mapboxAccessToken /\ nevents = 0)
        => /\ \A agency \in {"wa-state-parks", "nps", "usfs", "blm"} :
                  AgencyPressed(agency)
           /\ Len(activeAgencies) = 4
           /\ ~reservableOnly
           /\ ~yearRoundOnly
           /\ selectedCampsite = Null
           /\ ~DetailPanelShown

\* the app as it mounts with a token
C20_Witness ==
    /\ mapboxAccessToken
    /\ nevents = 0
    /\ AgencyPressed("blm")
    /\ ~DetailPanelShown

\* the agencies that occur in the array
AgencySet(arr) == {arr[k] : k \in 1..Len(arr)}

AllAgencies == {"wa-state-parks", "nps", "usfs", "blm"}

NoDuplicates(arr) == \A j, k \in 1..Len(arr) : arr[j] = arr[k] => j = k

\* C21: a step that changes activeAgencies is toggleAgency(a) for one agency
\* a: the membership of a is flipped and that of every other agency is kept;
\* the array it leaves holds no agency twice, and toggleAgency(a) applied
\* once more gives back the set of agencies from before the step.
C21_ToggleFlipsOne ==
    [][activeAgencies' # activeAgencies =>
          /\ \E a \in AllAgencies :
                 /\ (a \in AgencySet(activeAgencies')) = (a \notin AgencySet(activeAgencies))
                 /\ \A b \in AllAgencies \ {a} :
                        (b \in AgencySet(activeAgencies')) = (b \in AgencySet(activeAgencies))
                 /\ AgencySet(toggleAgency(activeAgencies', a)) = AgencySet(activeAgencies)
                 /\ NoDuplicates(toggleAgency(activeAgencies', a))
          /\ NoDuplicates(activeAgencies')]_vars

\* wa-state-parks switched off and on again, then nps switched off
C21_Witness ==
    /\ nevents = 3
    /\ activeAgencies = <<"usfs", "blm", "wa-state-parks">>

\* the positions of the features of the campsite-circles layer in a click
CirclePositions(e) ==
    IF e.kind = "click" /\ e.defined
    THEN {k \in 1..Len(e.features) : e.features[k].layer = "campsite-circles"}
    ELSE {}

\* sel holds the properties p, the ones Mapbox hands over as JSON text read
\* back into values
HoldsProperties(sel, p) ==
    /\ sel.name = p.name
    /\ sel.agency_short = p.agency_short
    /\ sel.reservable = p.reservable
    /\ \A f \in {"types", "availability_windows", "availability"} :
           sel[f].v = p[f].v /\ ~sel[f].json

\* C22: after any sequence of map clicks and close-button presses a campsite
\* is selected, and the detail panel shown, exactly when the last of these
\* events was a map click with a feature of the campsite-circles layer among
\* its features; the selected campsite then holds the properties of the first
\* such feature; after a map click without such a feature and after a
\* close-button press nothing is selected and the bottom padding is 0.
C22_SelectionFollowsLastEvent ==
    mapboxAccessToken =>
        LET hits == CirclePositions(lastEvent)
        IN  /\ DetailPanelShown <=> hits # {}
            /\ (selectedCampsite # Null) <=> hits # {}
            /\ hits # {} =>
                   HoldsProperties(
                       selectedCampsite,
                       lastEvent.features[CHOOSE k \in hits : \A j \in hits : k <= j].properties)
            /\ (lastEvent.kind \in {"click", "close"} /\ hits = {}) =>
                   selectedCampsite = Null /\ paddingBottom = 0

\* a campsite selected by the third event, a click that hit it under a
\* feature of another layer
C22_Witness ==
    /\ nevents = 3
    /\ lastEvent.kind = "click"
    /\ Len(lastEvent.features) = 2
    /\ lastEvent.features[1].layer = "water"
    /\ DetailPanelShown
    /\ selectedCampsite.name = "Deception Pass"
    /\ paddingBottom > 0

\* C23: in a standalone build (VITE_STANDALONE === 'true') no sequence of
\* selections, re-selections and deselections sends a detail request to the
\* backend, and the loading indicator is never shown
C23_StandaloneNeverFetches ==
    standalone = "true" =>
        /\ nfetches = 0
        /\ fetches = {}
        /\ ~loadingDetails
        /\ ~LoadingIndicatorShown

\* a standalone build in which, after a selection and a deselection, a
\* campsite has been chosen from the picker
C23_Witness ==
    /\ standalone = "true"
    /\ nevents = 4
    /\ lastEvent.kind = "pick"
    /\ selectedCampsite # Null
    /\ selectedCampsite.id = AlpineMeadowCamp.id

Displayed(k) ==
    \E j \in 1..Len(filteredFeatures) :
        filteredFeatures[j].properties = CampsiteData[k]

\* one of the windows of campsite k runs from '01-01' to '12-31'
HasYearRoundWindow(k) ==
    LET ws == CampsiteData[k].availability_windows
    IN  /\ ws # Undefined
        /\ \E w \in {ws.v[i] : i \in 1..Len(ws.v)} :
               /\ w.start.s = <<"0", "1", "-", "0", "1">>
               /\ w.end.s = <<"1", "2", "-", "3", "1">>

\* C25: the features passed on for display are exactly the campsites whose
\* agency is active, that are reservable when the Reservable filter is on
\* and that have a window from '01-01' to '12-31' when the Year-round filter
\* is on; a campsite without windows is left out under the Year-round
\* filter, and with no agency active nothing is displayed
C25_FilteredFeatures ==
    mapboxAccessToken =>
        /\ \A k \in 1..Len(CampsiteData) :
               Displayed(k) <=>
                   /\ CampsiteData[k].agency_short \in AgencySet(activeAgencies)
                   /\ reservableOnly => CampsiteData[k].reservable
                   /\ yearRoundOnly => HasYearRoundWindow(k)
        /\ Len(filteredFeatures) = Cardinality({k \in 1..Len(CampsiteData) : Displayed(k)})
        /\ \A k \in 1..Len(CampsiteData) :
               yearRoundOnly /\ CampsiteData[k].availability_windows = Undefined
                   => ~Displayed(k)
        /\ activeAgencies = <<>> => filteredFeatures = <<>>

\* the Year-round filter is on with the agency of the campsite without
\* windows active, and a year-round campsite is displayed
C25_Witness ==
    /\ yearRoundOnly
    /\ ~reservableOnly
    /\ "usfs" \in AgencySet(activeAgencies)
    /\ Len(activeAgencies) = 3
    /\ Displayed(1)
    /\ ~Displayed(4)

\* the day number of the date the last call on window i returned
ReturnedDay(i) == Day(ret[i].out.date.t)

\* the years around today.year whose candidates are looked at
YearsAround(i) == (TodayYear(i) - MaxYearSpan)..(TodayYear(i) + 1 + MaxYearSpan)

\* C26: for a non-negative advance, a returned date d on or after today is
\* the next upcoming booking-open date: d is the candidate of some year, and
\* no year at all, before today.year or after today.year + 1 included, has a
\* candidate seasonStart(y) - advance on or after today and before d
C26_NextUpcoming ==
    \A i \in WinIds :
        (/\ Returned(i)
         /\ RefAdvance(windows[i]) >= 0
         /\ ret[i].out.date.valid
         /\ ReturnedDay(i) >= TodayDay(i))
            => LET candidates ==
                       {RefCandidate(windows[i], y) : y \in YearsAround(i)}
               IN  /\ ReturnedDay(i) \in candidates
                   /\ ret[i].out.date = MidnightOf(ReturnedDay(i))
                   /\ \A c \in candidates :
                          ~(c >= TodayDay(i) /\ c < ReturnedDay(i))

\* the candidate of today's year fell two days before today, and the call
\* returns the candidate of the following year
C26_Witness ==
    /\ Returned("a")
    /\ RefAdvance(windows["a"]) = 30
    /\ windows["a"].start.s = MMDD(1, 29)
    /\ TodayDay("a") = MakeDay(2026, 0, 1)
    /\ RefCandidate(windows["a"], 2026) = TodayDay("a") - 2
    /\ ret["a"].out.date = MidnightOf(RefCandidate(windows["a"], 2027))
    /\ ReturnedDay("a") > TodayDay("a")

\* C27: a date returned from inside the scan loop is never before today; the
\* call returns a date before today exactly when the candidates of today.year
\* and of today.year + 1 are both before today, and it is then the fallback
\* that returns, unchecked, the candidate of today.year + 1
C27_PastOnlyByFallback ==
    \A i \in WinIds :
        (Returned(i) /\ ret[i].out.date.valid)
            => LET c0 == RefCandidate(windows[i], TodayYear(i))
                   c1 == RefCandidate(windows[i], TodayYear(i) + 1)
                   past == ReturnedDay(i) < TodayDay(i)
               IN  /\ ret[i].out.exit = "loop" => ~past
                   /\ past <=> (c0 < TodayDay(i) /\ c1 < TodayDay(i))
                   /\ past => /\ ret[i].out.exit = "fallback"
                              /\ ret[i].out.date = MidnightOf(c1)

\* on the last day of 2026 a window that starts on January 1 with a 30-day
\* advance resolves, through the fallback, to December 2, 2026
C27_Witness ==
    /\ Returned("a")
    /\ windows["a"].start.s = MMDD(1, 1)
    /\ RefAdvance(windows["a"]) = 30
    /\ TodayDay("a") = MakeDay(2026, 11, 31)
    /\ ret["a"].out.exit = "fallback"
    /\ ret["a"].out.date = MidnightOf(MakeDay(2026, 11, 2))

-----------------------------------------------------------------------------
(* Properties of the details fetched from the backend *)

\* C28: in a backend build, under every interleaving of selections,
\* deselections and settled requests, campsiteDetails, when it is not null,
\* is the response for the id of the campsite selected now: the details of a
\* campsite selected earlier are never held while another campsite, or none,
\* is selected
C28_DetailsOfSelected ==
    (standalone # "true" /\ campsiteDetails # Null)
        => /\ selectedCampsite # Null
           /\ campsiteDetails.id = selectedCampsite.id

\* the request sent for the campsite selected now, while it is not settled
CurrentRequest ==
    IF selectedCampsite = Null THEN {}
    ELSE {f \in fetches : f.n = nfetches /\ f.id = selectedCampsite.id}

\* C29: in a backend build, under every interleaving of selections and
\* settled requests, loadingDetails is true as long as the request sent for
\* the campsite selected now is not settled, and it is false once every
\* request sent has settled
C29_LoadingWhileInFlight ==
    standalone # "true"
        => /\ CurrentRequest # {} => loadingDetails
           /\ fetches = {} => ~loadingDetails

-----------------------------------------------------------------------------
(* Properties of the drag of the detail panel *)

\* C30: panelHeight changes only in a drag-move between a drag-start and the
\* drag-end that follows it, and every value it is given is a number from
\* 100 to 0.8 x window.innerHeight, also when the pointer's clientY is 0
C30_DragKeepsHeightInRange ==
    [][panelHeight' # panelHeight
          => /\ dragEvent' = "move"
             /\ isDragging
             /\ ~panelHeight'.nan
             /\ panelHeight'.v >= 100
             /\ 10 * panelHeight'.v <= 8 * InnerHeight]_vars

====
